---- MODULE Spec2Model ----
(***************************************************************************)
(* Model of the live-preview reverse proxy route handler                   *)
(* (/api/projects/:id/proxy): the OPTIONS, POST and GET handlers, the      *)
(* transport selection, the upstream forward and the translation of the    *)
(* upstream outcome into the HTTP response.                                *)
(*                                                                         *)
(* Strings are sequences of one-character strings, so that the string      *)
(* operations of the handlers (includes, startsWith, regex prefix tests,   *)
(* template concatenation, URL parsing) are modelled by what they compute. *)
(***************************************************************************)
EXTENDS Integers, Sequences, FiniteSets, TLC

----------------------------------------------------------------------------
(* String literals of the source, as character sequences.                  *)
\* The literals of the path parameter's default and of the /_next/ re-anchoring.
PathLit ==
  [ slash |->  \* /
      <<"/">>,
    next |->  \* /_next/
      <<"/", "_", "n", "e", "x", "t", "/">>,
    static |->  \* static/
      <<"s", "t", "a", "t", "i", "c", "/">>,
    chunks |->  \* chunks
      <<"c", "h", "u", "n", "k", "s">>,
    css |->  \* css
      <<"c", "s", "s">>,
    media |->  \* media
      <<"m", "e", "d", "i", "a">>,
    development |->  \* development
      <<"d", "e", "v", "e", "l", "o", "p", "m", "e", "n", "t">>,
    webpack |->  \* webpack
      <<"w", "e", "b", "p", "a", "c", "k">> ]

\* The literals of the origin test and of the target URLs.
TargetLit ==
  [ localhost |->  \* localhost
      <<"l", "o", "c", "a", "l", "h", "o", "s", "t">>,
    loopbackIp |->  \* 127.0.0.1
      <<"1", "2", "7", ".", "0", ".", "0", ".", "1">>,
    httpLocalhost |->  \* http://localhost:
      <<"h", "t", "t", "p", ":", "/", "/", "l", "o", "c", "a", "l", "h", "o", "s", "t", ":">>,
    http |->  \* http://
      <<"h", "t", "t", "p", ":", "/", "/">>,
    https |->  \* https://
      <<"h", "t", "t", "p", "s", ":", "/", "/">> ]

\* The messages of the errors the upstream call and the Response constructor throw.
ErrorLit ==
  [ failedToFetch |->  \* Failed to fetch
      <<"F", "a", "i", "l", "e", "d", " ", "t", "o", " ", "f", "e", "t", "c", "h">>,
    fetchFailed |->  \* fetch failed
      <<"f", "e", "t", "c", "h", " ", "f", "a", "i", "l", "e", "d">>,
    failedToParse |->  \* Failed to parse URL
      <<"F", "a", "i", "l", "e", "d", " ", "t", "o", " ", "p", "a", "r", "s", "e", " ", "U", "R", "L">>,
    hasCredentials |->  \* Request cannot be constructed from a URL that includes credentials
      <<"R", "e", "q", "u", "e", "s", "t", " ", "c", "a", "n", "n", "o", "t", " ", "b", "e", " ", "c", "o", "n", "s", "t", "r", "u", "c", "t", "e", "d", " ", "f", "r", "o", "m", " ", "a", " ", "U", "R", "L", " ", "t", "h", "a", "t", " ", "i", "n", "c", "l", "u", "d", "e", "s", " ", "c", "r", "e", "d", "e", "n", "t", "i", "a", "l", "s">>,
    invalidStatus |->  \* Invalid response status code
      <<"I", "n", "v", "a", "l", "i", "d", " ", "r", "e", "s", "p", "o", "n", "s", "e", " ", "s", "t", "a", "t", "u", "s", " ", "c", "o", "d", "e">>,
    invalidUrl |-> <<"I", "n", "v", "a", "l", "i", "d", " ", "U", "R", "L">>,
    thrown |-> "TypeError: Invalid URL",
    proxyFailed |-> <<"P", "r", "o", "x", "y", " ", "f", "a", "i", "l", "e", "d", ":", " ">>,
    relayError |->  \* Proxy request failed
      <<"P", "r", "o", "x", "y", " ", "r", "e", "q", "u", "e", "s", "t", " ", "f", "a", "i", "l", "e", "d">>,
    aborted |->  \* This operation was aborted
      <<"T", "h", "i", "s", " ", "o", "p", "e", "r", "a", "t", "i", "o", "n", " ", "w", "a", "s", " ", "a", "b", "o", "r", "t", "e", "d">>,
    timedOut |->  \* The operation was aborted due to timeout
      <<"T", "h", "e", " ", "o", "p", "e", "r", "a", "t", "i", "o", "n", " ", "w", "a", "s", " ", "a", "b", "o", "r", "t", "e", "d", " ", "d", "u", "e", " ", "t", "o", " ", "t", "i", "m", "e", "o", "u", "t">> ]

\* The literals of the content-type dispatch and of the cache policy.
TypeLit ==
  [ textHtml |->  \* text/html
      <<"t", "e", "x", "t", "/", "h", "t", "m", "l">>,
    javascript |->  \* javascript
      <<"j", "a", "v", "a", "s", "c", "r", "i", "p", "t">>,
    typescript |->  \* typescript
      <<"t", "y", "p", "e", "s", "c", "r", "i", "p", "t">>,
    textCss |->  \* text/css
      <<"t", "e", "x", "t", "/", "c", "s", "s">>,
    stylesheet |->  \* stylesheet
      <<"s", "t", "y", "l", "e", "s", "h", "e", "e", "t">>,
    vite |->  \* /@vite/
      <<"/", "@", "v", "i", "t", "e", "/">>,
    reactRefresh |->  \* /@react-refresh
      <<"/", "@", "r", "e", "a", "c", "t", "-", "r", "e", "f", "r", "e", "s", "h">>,
    tsx |->  \* .tsx
      <<".", "t", "s", "x">>,
    ts |->  \* .ts
      <<".", "t", "s">>,
    jsx |->  \* .jsx
      <<".", "j", "s", "x">>,
    mjs |->  \* .mjs
      <<".", "m", "j", "s">>,
    dotCss |->  \* .css
      <<".", "c", "s", "s">>,
    direct |->  \* ?direct
      <<"?", "d", "i", "r", "e", "c", "t">>,
    serverFn |->  \* /_serverFn/
      <<"/", "_", "s", "e", "r", "v", "e", "r", "F", "n", "/">>,
    api |->  \* /api/
      <<"/", "a", "p", "i", "/">>,
    applicationJson |->  \* application/json
      <<"a", "p", "p", "l", "i", "c", "a", "t", "i", "o", "n", "/", "j", "s", "o", "n">>,
    textPlain |->  \* text/plain
      <<"t", "e", "x", "t", "/", "p", "l", "a", "i", "n">>,
    nodeModulesVite |->  \* /node_modules/.vite/
      <<"/", "n", "o", "d", "e", "_", "m", "o", "d", "u", "l", "e", "s", "/", ".", "v", "i", "t", "e", "/">>,
    chunkDash |->  \* chunk-
      <<"c", "h", "u", "n", "k", "-">>,
    dotJs |->  \* .js
      <<".", "j", "s">> ]

\* Sample values of the inputs: path parameters, Host headers, a tunnel URL,
\* upstream content types.
Sample ==
  [ pathA |->  \* /a
      <<"/", "a">>,
    pathDigit |->  \* 1/a
      <<"1", "/", "a">>,
    pathDot |->  \* .e/a
      <<".", "e", "/", "a">>,
    pathCred |->  \* @e/a
      <<"@", "e", "/", "a">>,
    pathChunk |->  \* static/chunks/x.js
      <<"s", "t", "a", "t", "i", "c", "/", "c", "h", "u", "n", "k", "s", "/", "x", ".", "j", "s">>,
    pathApi |->  \* /api/x
      <<"/", "a", "p", "i", "/", "x">>,
    fileX |->  \* x.js
      <<"x", ".", "j", "s">>,
    dirNext |->  \* _next/
      <<"_", "n", "e", "x", "t", "/">>,
    dirStatic |->  \* static
      <<"s", "t", "a", "t", "i", "c">>,
    pathCss |->  \* /s.css
      <<"/", "s", ".", "c", "s", "s">>,
    pathTs |->  \* /v/notes.ts
      <<"/", "v", "/", "n", "o", "t", "e", "s", ".", "t", "s">>,
    pathCssDirect |->  \* /s.css?direct
      <<"/", "s", ".", "c", "s", "s", "?", "d", "i", "r", "e", "c", "t">>,
    pathViteChunk |->  \* /chunk-AB1.js
      <<"/", "c", "h", "u", "n", "k", "-", "A", "B", "1", ".", "j", "s">>,
    hostLocal |->  \* localhost:3000
      <<"l", "o", "c", "a", "l", "h", "o", "s", "t", ":", "3", "0", "0", "0">>,
    hostLoop |->  \* 127.0.0.1:3000
      <<"1", "2", "7", ".", "0", ".", "0", ".", "1", ":", "3", "0", "0", "0">>,
    hostRemote |->  \* app.io
      <<"a", "p", "p", ".", "i", "o">>,
    tunnelUrl |->  \* https://t.io
      <<"h", "t", "t", "p", "s", ":", "/", "/", "t", ".", "i", "o">>,
    typeHtml |->  \* text/html; charset=utf-8
      <<"t", "e", "x", "t", "/", "h", "t", "m", "l", ";", " ", "c", "h", "a", "r", "s", "e", "t", "=", "u", "t", "f", "-", "8">>,
    typeJs |->  \* application/javascript
      <<"a", "p", "p", "l", "i", "c", "a", "t", "i", "o", "n", "/", "j", "a", "v", "a", "s", "c", "r", "i", "p", "t">>,
    typeCss |->  \* text/css
      <<"t", "e", "x", "t", "/", "c", "s", "s">>,
    typePng |->  \* image/png
      <<"i", "m", "a", "g", "e", "/", "p", "n", "g">>,
    typeForm |->  \* text/plain;charset=UTF-8
      <<"t", "e", "x", "t", "/", "p", "l", "a", "i", "n", ";", "c", "h", "a", "r", "s", "e", "t", "=", "U", "T", "F", "-", "8">>,
    bodyJson |->  \* {"ok":1}
      <<"{", "\"", "o", "k", "\"", ":", "1", "}">>,
    bodyBytes |->  \* the bytes 0x00 0xFF 0x0A
      <<0, 255, 10>> ]

----------------------------------------------------------------------------
(* String primitives used by the handlers.                                 *)

\* String.prototype.startsWith
StartsWith(s, p) == Len(s) >= Len(p) /\ SubSeq(s, 1, Len(p)) = p

\* String.prototype.endsWith
EndsWith(s, p) == Len(s) >= Len(p) /\ SubSeq(s, Len(s) - Len(p) + 1, Len(s)) = p

\* String.prototype.includes
Includes(s, p) == \E i \in 1..(Len(s) - Len(p) + 1) : SubSeq(s, i, i + Len(p) - 1) = p

\* The rest of s from position i on (s.substring(i - 1) in the source's indexing).
Drop(s, i) == SubSeq(s, i, Len(s))

DigitChars == <<"0", "1", "2", "3", "4", "5", "6", "7", "8", "9">>

IsDigit(c) == \E d \in 1..10 : DigitChars[d] = c

DigitVal(c) == (CHOOSE d \in 1..10 : DigitChars[d] = c) - 1

\* Template-literal conversion of a number to its decimal text: `${proj.devServerPort}`.
RECURSIVE ToDigits(_)
ToDigits(n) == IF n < 10 THEN <<DigitChars[n + 1]>>
               ELSE ToDigits(n \div 10) \o <<DigitChars[(n % 10) + 1]>>

\* Value of a decimal digit string (the URL parser's port state).
RECURSIVE ParseDigits(_)
ParseDigits(s) == IF s = <<>> THEN 0
                  ELSE 10 * ParseDigits(SubSeq(s, 1, Len(s) - 1)) + DigitVal(s[Len(s)])

LowerLetters == <<"a", "b", "c", "d", "e", "f", "g", "h", "i", "j", "k", "l", "m",
                  "n", "o", "p", "q", "r", "s", "t", "u", "v", "w", "x", "y", "z">>

UpperLetters == <<"A", "B", "C", "D", "E", "F", "G", "H", "I", "J", "K", "L", "M",
                  "N", "O", "P", "Q", "R", "S", "T", "U", "V", "W", "X", "Y", "Z">>

\* Case folding of the regex flag i.
ToLower(c) == IF \E k \in 1..26 : UpperLetters[k] = c
              THEN LowerLetters[CHOOSE k \in 1..26 : UpperLetters[k] = c]
              ELSE c

\* The character class [A-Z0-9] under the flag i.
IsAlnum(c) == IsDigit(c) \/ \E k \in 1..26 : LowerLetters[k] = ToLower(c)

LowerStr(s) == [i \in 1..Len(s) |-> ToLower(s[i])]

----------------------------------------------------------------------------
(* Path Normalizer: the query parameter and the /_next/ re-anchoring.      *)

\* url.searchParams.get('path') || '/'  (an absent or empty parameter is <<>>).
PathParam(raw) == IF raw = <<>> THEN PathLit.slash ELSE raw

NextAssetDirs == {PathLit.chunks, PathLit.css, PathLit.media, PathLit.development, PathLit.webpack}

\* /^\/?static\/(chunks|css|media|development|webpack)\//.test(path)
IsNextChunkPath(path) ==
  LET rest == IF StartsWith(path, PathLit.slash) THEN Tail(path) ELSE path
  IN  \E d \in NextAssetDirs : StartsWith(rest, PathLit.static \o d \o PathLit.slash)

\* path.replace(/^\//, '')
StripLeadingSlash(path) == IF StartsWith(path, PathLit.slash) THEN Tail(path) ELSE path

\* The re-anchoring with the leading slash of the path kept.
NormalizePath_KeepSlash(path) ==
  IF IsNextChunkPath(path) THEN PathLit.next \o path ELSE path

\* if (regex.test(path)) path = '/_next/' + path.replace(/^\//, '')
NormalizePath(path) ==
  IF IsNextChunkPath(path) THEN PathLit.next \o StripLeadingSlash(path) ELSE path

\* The client bootstrap's normalizeNextPath: the same regex through path.match, after
\* the guard for an empty path.
normalizeNextPath(path) ==
  IF path = <<>> THEN path
  ELSE IF IsNextChunkPath(path) THEN PathLit.next \o StripLeadingSlash(path)
  ELSE path

----------------------------------------------------------------------------
(* URL parsing as done by fetch(targetUrl) on the concatenated target.     *)
(* WHATWG URL parsing of an http(s) URL, for the characters of the model's *)
(* inputs (letters, digits, ".", ":", "@", "/", "?", "#", "_", "-").       *)

AuthorityEnders == {"/", "?", "#", "\\"}

\* Index of the first character of s that is in cs, or Len(s) + 1.
FirstIndexIn(s, cs) ==
  IF \E i \in 1..Len(s) : s[i] \in cs
  THEN CHOOSE i \in 1..Len(s) : s[i] \in cs /\ \A j \in 1..(i - 1) : s[j] \notin cs
  ELSE Len(s) + 1

\* Index of the last occurrence of c in s, or 0.
LastIndexOf(s, c) ==
  IF \E i \in 1..Len(s) : s[i] = c
  THEN CHOOSE i \in 1..Len(s) : s[i] = c /\ \A j \in (i + 1)..Len(s) : s[j] # c
  ELSE 0

BadUrl == [ok |-> FALSE, credentials |-> FALSE, host |-> <<>>, port |-> 0]

ParseUrl(u) ==
  LET isHttps  == StartsWith(u, TargetLit.https)
      isHttp   == StartsWith(u, TargetLit.http)
      rest     == IF isHttps THEN Drop(u, Len(TargetLit.https) + 1) ELSE Drop(u, Len(TargetLit.http) + 1)
      auth     == SubSeq(rest, 1, FirstIndexIn(rest, AuthorityEnders) - 1)
      at       == LastIndexOf(auth, "@")
      hostport == Drop(auth, at + 1)
      colon    == LastIndexOf(hostport, ":")
      host     == IF colon = 0 THEN hostport ELSE SubSeq(hostport, 1, colon - 1)
      portStr  == IF colon = 0 THEN <<>> ELSE Drop(hostport, colon + 1)
      defPort  == IF isHttps THEN 443 ELSE 80
  IN  IF ~(isHttps \/ isHttp) THEN BadUrl
      ELSE IF host = <<>> THEN BadUrl
      ELSE IF \E i \in 1..Len(portStr) : ~IsDigit(portStr[i]) THEN BadUrl
      ELSE IF ParseDigits(portStr) > 65535 THEN BadUrl
      ELSE [ok |-> TRUE, credentials |-> at > 1, host |-> LowerStr(host),
            port |-> IF portStr = <<>> THEN defPort ELSE ParseDigits(portStr)]

----------------------------------------------------------------------------
(* Primitives of the Content Rewriter: literal and regex matching at a     *)
(* position, String.prototype.replace, encodeURIComponent.                 *)

\* \s of the regexes.
IsSpace(c) == c \in {" ", "\t", "\n", "\r"}

Quotes == {"\"", "'"}

\* The literal lit stands in s at position i (case folded when ci: the flag i).
LitAt(s, i, lit, ci) ==
  /\ i >= 1 /\ i + Len(lit) - 1 <= Len(s)
  /\ \A k \in 1..Len(lit) :
       IF ci THEN ToLower(s[i + k - 1]) = ToLower(lit[k]) ELSE s[i + k - 1] = lit[k]

\* Index of the first occurrence of lit in s at or after i, or 0.
IndexFrom(s, lit, i, ci) ==
  IF \E j \in i..Len(s) : LitAt(s, j, lit, ci)
  THEN CHOOSE j \in i..Len(s) :
         LitAt(s, j, lit, ci) /\ \A k \in i..(j - 1) : ~LitAt(s, k, lit, ci)
  ELSE 0

\* Index after the whitespace at i (a greedy \s*).
SkipSpace(s, i) ==
  IF \E j \in i..Len(s) : ~IsSpace(s[j])
  THEN CHOOSE j \in i..Len(s) : ~IsSpace(s[j]) /\ \A k \in i..(j - 1) : IsSpace(s[k])
  ELSE IF i > Len(s) THEN i ELSE Len(s) + 1

\* Index of the first character at or after i that is in cs, or Len(s) + 1 (the end
\* of a greedy negated character class).
FindChar(s, i, cs) ==
  IF \E j \in i..Len(s) : s[j] \in cs
  THEN CHOOSE j \in i..Len(s) : s[j] \in cs /\ \A k \in i..(j - 1) : s[k] \notin cs
  ELSE IF i > Len(s) THEN i ELSE Len(s) + 1

\* The pieces of ts, joined.
RECURSIVE Concat(_)
Concat(ts) == IF ts = <<>> THEN <<>> ELSE Head(ts) \o Concat(Tail(ts))

\* No match at a position; a match is [len |-> its length, out |-> its replacement].
NoMatch == [len |-> 0, out |-> <<>>]

\* s.replace(regex, replacer) with the flag g, from position i on, matches[j] being
\* the match of the regex at position j of s: the leftmost match is replaced and
\* matching resumes after it.
RECURSIVE ReplaceFrom(_, _, _)
ReplaceFrom(matches, s, i) ==
  IF ~\E j \in i..Len(s) : matches[j].len > 0 THEN Drop(s, i)
  ELSE LET j == CHOOSE j \in i..Len(s) :
                  matches[j].len > 0 /\ \A k \in i..(j - 1) : matches[k].len = 0
       IN  SubSeq(s, i, j - 1) \o matches[j].out \o ReplaceFrom(matches, s, j + matches[j].len)

\* The printable ASCII characters, from code 32 on (no entry for code 96).
Ascii ==
  << " ", "!", "\"", "#", "$", "%", "&", "'", "(", ")", "*", "+", ",", "-", ".", "/",
     "0", "1", "2", "3", "4", "5", "6", "7", "8", "9", ":", ";", "<", "=", ">", "?",
     "@", "A", "B", "C", "D", "E", "F", "G", "H", "I", "J", "K", "L", "M", "N", "O",
     "P", "Q", "R", "S", "T", "U", "V", "W", "X", "Y", "Z", "[", "\\", "]", "^", "_",
     "", "a", "b", "c", "d", "e", "f", "g", "h", "i", "j", "k", "l", "m", "n", "o",
     "p", "q", "r", "s", "t", "u", "v", "w", "x", "y", "z", "{", "|", "}", "~" >>

HexDigits == <<"0", "1", "2", "3", "4", "5", "6", "7", "8", "9", "A", "B", "C", "D", "E", "F">>

\* The code of an ASCII character.
CharCode(c) ==
  IF c = "\t" THEN 9 ELSE IF c = "\n" THEN 10 ELSE IF c = "\r" THEN 13
  ELSE 31 + CHOOSE k \in 1..Len(Ascii) : Ascii[k] = c

\* encodeURIComponent on ASCII text: letters, digits and - _ . ! ~ * ' ( ) are kept,
\* every other character becomes % and its code in two hexadecimal digits.
encodeURIComponent(s) ==
  Concat([k \in 1..Len(s) |->
            IF IsAlnum(s[k]) \/ s[k] \in {"-", "_", ".", "!", "~", "*", "'", "(", ")"}
            THEN <<s[k]>>
            ELSE <<"%", HexDigits[(CharCode(s[k]) \div 16) + 1],
                        HexDigits[(CharCode(s[k]) % 16) + 1]>>])

\* new URL(req.url).searchParams.get('path') for the request URL u (path, ?, query):
\* the value of the first pair named path of the query, the pairs being separated
\* by &, with + read as a space and every % followed by two hexadecimal digits as
\* the character of that code (ASCII); <<>> when there is no such pair.
SearchParamPath(u) ==
  LET q0 == Drop(u, FirstIndexIn(u, {"?"}) + 1)
      q  == SubSeq(q0, 1, FirstIndexIn(q0, {"#"}) - 1)
      name == <<"p", "a", "t", "h", "=">>
      at == {i \in 1..Len(q) : (i = 1 \/ q[i - 1] = "&") /\ LitAt(q, i, name, FALSE)}
      i  == CHOOSE i \in at : \A j \in at : i <= j
      v  == SubSeq(q, i + Len(name), FindChar(q, i + Len(name), {"&"}) - 1)
      IsHex(c) == \E h \in 1..16 : ToLower(HexDigits[h]) = ToLower(c)
      Hex(c) == (CHOOSE h \in 1..16 : ToLower(HexDigits[h]) = ToLower(c)) - 1
      Chr(n) == IF n = 9 THEN "\t" ELSE IF n = 10 THEN "\n" ELSE IF n = 13 THEN "\r"
                ELSE Ascii[n - 31]
  IN  IF at = {} THEN <<>>
      ELSE ReplaceFrom([k \in 1..Len(v) |->
                          IF v[k] = "+" THEN [len |-> 1, out |-> <<" ">>]
                          ELSE IF /\ v[k] = "%" /\ k + 2 <= Len(v)
                                  /\ IsHex(v[k + 1]) /\ IsHex(v[k + 2])
                                  /\ 16 * Hex(v[k + 1]) + Hex(v[k + 2]) \in {9, 10, 13} \cup 32..126
                          THEN [len |-> 3, out |-> <<Chr(16 * Hex(v[k + 1]) + Hex(v[k + 2]))>>]
                          ELSE NoMatch],
                       v, 1)

----------------------------------------------------------------------------
(* Content Rewriter: HTML.                                                 *)

\* The literals of the HTML passes.
HtmlLit ==
  [ head |-> <<"<", "h", "e", "a", "d", ">">>,
    headIndent |-> <<"\n", " ", " ", " ", " ">>,
    body |-> <<"<", "/", "b", "o", "d", "y", ">">>,
    scriptOpen |-> <<"<", "s", "c", "r", "i", "p", "t">>,
    scriptTag |-> <<"<", "s", "c", "r", "i", "p", "t", ">">>,
    scriptSpace |-> <<"<", "s", "c", "r", "i", "p", "t", " ">>,
    scriptClose |-> <<"<", "/", "s", "c", "r", "i", "p", "t", ">">>,
    src |-> <<"s", "r", "c">>,
    href |-> <<"h", "r", "e", "f">>,
    apiProjects |-> <<"/", "a", "p", "i", "/", "p", "r", "o", "j", "e", "c", "t", "s", "/">>,
    proxyPath |-> <<"/", "p", "r", "o", "x", "y", "?", "p", "a", "t", "h", "=">>,
    typeEq |-> <<"t", "y", "p", "e", "=">>,
    module |-> <<"m", "o", "d", "u", "l", "e">>,
    from |-> <<"f", "r", "o", "m">>,
    import |-> <<"i", "m", "p", "o", "r", "t">>,
    require |-> <<"r", "e", "q", "u", "i", "r", "e">>,
    export |-> <<"e", "x", "p", "o", "r", "t">>,
    flightOpen |-> <<"<", "s", "c", "r", "i", "p", "t", ">", "s", "e", "l", "f", ".", "_", "_", "n", "e", "x", "t", "_", "f", ".", "p", "u", "s", "h", "(", "[", "1", ",">>,
    flightClose |-> <<"\"", "]", ")", "<", "/", "s", "c", "r", "i", "p", "t", ">">>,
    next |-> <<"/", "_", "n", "e", "x", "t", "/">>,
    nextEncoded |-> <<"%", "2", "F", "_", "n", "e", "x", "t", "%", "2", "F">>,
    bootstrapOpen |-> <<"<", "s", "c", "r", "i", "p", "t", ">", "\n", "(", "f", "u", "n", "c", "t", "i", "o", "n", "(", ")", " ", "{", "\n", " ", " ", "v", "a", "r", " ", "p", "r", "o", "x", "y", "P", "r", "e", "f", "i", "x", " ", "=", " ", "'">>,
    bootstrapClose |-> <<"'", ";", "\n", "}", ")", "(", ")", ";", "\n", "<", "/", "s", "c", "r", "i", "p", "t", ">">>,
    selection |-> <<"/", "*", "s", "e", "l", "e", "c", "t", "*", "/">> ]

\* `/api/projects/${id}/proxy?path=`
ProxyPrefix(id) == HtmlLit.apiProjects \o id \o HtmlLit.proxyPath

\* earlyScripts: the client bootstrap, cut down to its first statement.  The rest of
\* its text holds no <head>, no src= or href=, no <script, no </body> and no quoted
\* import path, so no pass of the rewriter matches inside it.
EarlyScripts(id) == HtmlLit.bootstrapOpen \o ProxyPrefix(id) \o HtmlLit.bootstrapClose

\* if (/<head>/i.test(html)) html = html.replace(/<head>/i, headTag)
InjectBootstrap(html, id) ==
  LET i == IndexFrom(html, HtmlLit.head, 1, TRUE)
  IN  IF i = 0 THEN html
      ELSE SubSeq(html, 1, i - 1) \o HtmlLit.head \o HtmlLit.headIndent \o EarlyScripts(id)
             \o Drop(html, i + Len(HtmlLit.head))

\* assetPath.match(/\.css$/i) && !assetPath.includes('?') ? assetPath + '?direct' : assetPath
WithDirect(assetPath) ==
  IF LitAt(assetPath, Len(assetPath) - Len(TypeLit.dotCss) + 1, TypeLit.dotCss, TRUE)
     /\ ~Includes(assetPath, <<"?">>)
  THEN assetPath \o TypeLit.direct
  ELSE assetPath

\* /(src|href)=(["'])(\/(?!\/)[^"']*)(["'])/gi at position i, and its replacer.
AttrMatchAt(id, s, i) ==
  LET n == IF LitAt(s, i, HtmlLit.src, TRUE) THEN Len(HtmlLit.src)
           ELSE IF LitAt(s, i, HtmlLit.href, TRUE) THEN Len(HtmlLit.href)
           ELSE 0
      q == i + n + 1
      e == FindChar(s, q + 2, Quotes)
      assetPath == SubSeq(s, q + 1, e - 1)
  IN  IF n = 0 \/ q + 1 > Len(s) THEN NoMatch
      ELSE IF s[i + n] # "=" \/ s[q] \notin Quotes \/ s[q + 1] # "/" THEN NoMatch
      ELSE IF q + 2 <= Len(s) /\ s[q + 2] = "/" THEN NoMatch
      ELSE IF e > Len(s) THEN NoMatch
      ELSE IF StartsWith(assetPath, HtmlLit.apiProjects)
      THEN [len |-> e - i + 1, out |-> SubSeq(s, i, e)]
      ELSE [len |-> e - i + 1,
            out |-> SubSeq(s, i, i + n - 1) \o <<"=", s[q]>> \o ProxyPrefix(id)
                      \o encodeURIComponent(WithDirect(assetPath)) \o <<s[q]>>]

\* Index after `kw\s+["']` (spaced) or `kw\s*\(["']` / `kw\s*\(\s*["']` (call form, with
\* \s* after the parenthesis when inner) at position i, or 0.
KeywordQuoteAt(s, i, kw, form, inner) ==
  LET a == i + Len(kw)
      b == SkipSpace(s, a)
      c == IF inner THEN SkipSpace(s, b + 1) ELSE b + 1
  IN  IF ~LitAt(s, i, kw, FALSE) THEN 0
      ELSE IF form = "spaced"
      THEN IF b > a /\ b <= Len(s) /\ s[b] \in Quotes THEN b + 1 ELSE 0
      ELSE IF b <= Len(s) /\ s[b] = "(" /\ c <= Len(s) /\ s[c] \in Quotes THEN c + 1 ELSE 0

\* Index after `export\s+\*\s+from\s+["']` at position i, or 0.
ExportStarFromAt(s, i) ==
  LET a == i + Len(HtmlLit.export)
      b == SkipSpace(s, a)
      c == SkipSpace(s, b + 1)
  IN  IF LitAt(s, i, HtmlLit.export, FALSE) /\ b > a /\ b <= Len(s) /\ s[b] = "*" /\ c > b + 1
      THEN KeywordQuoteAt(s, c, HtmlLit.from, "spaced", FALSE)
      ELSE 0

\* Index after the prefix group of the import regexes at position i, or 0: of
\* (from\s+["']|import\s*\(["']) in an inline module script, and of
\* (from\s+["']|import\s*\(\s*["']|import\s+["']|require\s*\(\s*["']|export\s+\*\s+from\s+["'])
\* in a script response (generic).
ImportPrefixAt(s, i, generic) ==
  LET alternatives ==
        IF generic
        THEN << KeywordQuoteAt(s, i, HtmlLit.from, "spaced", FALSE),
                KeywordQuoteAt(s, i, HtmlLit.import, "call", TRUE),
                KeywordQuoteAt(s, i, HtmlLit.import, "spaced", FALSE),
                KeywordQuoteAt(s, i, HtmlLit.require, "call", TRUE),
                ExportStarFromAt(s, i) >>
        ELSE << KeywordQuoteAt(s, i, HtmlLit.from, "spaced", FALSE),
                KeywordQuoteAt(s, i, HtmlLit.import, "call", FALSE) >>
      first == FindChar([k \in 1..Len(alternatives) |-> IF alternatives[k] > 0 THEN "y" ELSE "n"],
                        1, {"y"})
  IN  IF first > Len(alternatives) THEN 0 ELSE alternatives[first]

\* The import regex at position i: the prefix group, then (\/[^"']+)(["']); and its
\* replacer, which in a script response leaves a path containing /api/projects/.
ImportMatchAt(id, s, i, generic) ==
  LET p == ImportPrefixAt(s, i, generic)
      e == FindChar(s, p + 1, Quotes)
      importPath == SubSeq(s, p, e - 1)
  IN  IF p = 0 \/ p > Len(s) THEN NoMatch
      ELSE IF s[p] # "/" \/ e > Len(s) \/ e < p + 2 THEN NoMatch
      ELSE IF generic /\ Includes(importPath, HtmlLit.apiProjects)
      THEN [len |-> e - i + 1, out |-> SubSeq(s, i, e)]
      ELSE [len |-> e - i + 1,
            out |-> SubSeq(s, i, p - 1) \o ProxyPrefix(id) \o encodeURIComponent(importPath)
                      \o <<s[e]>>]

\* scriptContent.replace(/(from\s+["']|import\s*\(["'])(\/[^"']+)(["'])/g, ...)
RewriteInlineImports(id, content) ==
  CHOOSE out \in {ReplaceFrom([k \in 1..Len(c) |-> ImportMatchAt(id, c, k, FALSE)], c, 1) :
                    c \in {content}} : TRUE

\* /<script\s+([^>]*?type=["']module["'][^>]*?)>([\s\S]*?)<\/script>/gi at position i,
\* and its replacer.
ModuleScriptMatchAt(id, s, i) ==
  LET a == i + Len(HtmlLit.scriptOpen)
      b == SkipSpace(s, a)
      g == FindChar(s, b, {">"})
      attrs == SubSeq(s, b, g - 1)
      c == IndexFrom(s, HtmlLit.scriptClose, g + 1, TRUE)
  IN  IF ~LitAt(s, i, HtmlLit.scriptOpen, TRUE) \/ b = a \/ g > Len(s) THEN NoMatch
      ELSE IF ~\E k \in 1..Len(attrs) : \E q1 \in Quotes, q2 \in Quotes :
                 LitAt(attrs, k, HtmlLit.typeEq \o <<q1>> \o HtmlLit.module \o <<q2>>, TRUE)
      THEN NoMatch
      ELSE IF c = 0 THEN NoMatch
      ELSE [len |-> c + Len(HtmlLit.scriptClose) - i,
            out |-> HtmlLit.scriptSpace \o attrs \o <<">">>
                      \o RewriteInlineImports(id, SubSeq(s, g + 1, c - 1))
                      \o HtmlLit.scriptClose]

\* /(<script>self\.__next_f\.push\(\[1,)([\s\S]*?)("\]\)<\/script>)/gi at position i,
\* and its replacer: payload.replace(/\/_next\//g, proxyPrefix + '%2F_next%2F').
FlightMatchAt(id, s, i) ==
  LET a == i + Len(HtmlLit.flightOpen)
      c == IndexFrom(s, HtmlLit.flightClose, a, TRUE)
      NextAt(payload) == [k \in 1..Len(payload) |->
                            IF LitAt(payload, k, HtmlLit.next, FALSE)
                            THEN [len |-> Len(HtmlLit.next),
                                  out |-> ProxyPrefix(id) \o HtmlLit.nextEncoded]
                            ELSE NoMatch]
      rewritten == CHOOSE out \in {ReplaceFrom(NextAt(payload), payload, 1) :
                                     payload \in {SubSeq(s, a, c - 1)}} : TRUE
  IN  IF ~LitAt(s, i, HtmlLit.flightOpen, TRUE) \/ c = 0 THEN NoMatch
      ELSE [len |-> c + Len(HtmlLit.flightClose) - i,
            out |-> SubSeq(s, i, a - 1) \o rewritten
                      \o SubSeq(s, c, c + Len(HtmlLit.flightClose) - 1)]

\* The text String.prototype.replace puts in place of the match of length len at
\* position i of s when the replacement is the string repl and the regex has no
\* group: $$ is a dollar sign, $& the match, $' what follows the match; every other
\* character stands for itself (repl has no grave accent).
GetSubstitution(repl, s, i, len) ==
  ReplaceFrom([k \in 1..Len(repl) |->
                 IF repl[k] # "$" \/ k = Len(repl) THEN NoMatch
                 ELSE IF repl[k + 1] = "$" THEN [len |-> 2, out |-> <<"$">>]
                 ELSE IF repl[k + 1] = "&" THEN [len |-> 2, out |-> SubSeq(s, i, i + len - 1)]
                 ELSE IF repl[k + 1] = "'" THEN [len |-> 2, out |-> Drop(s, i + len)]
                 ELSE NoMatch],
              repl, 1)

\* The selection script before the first </body>, by html.replace(/<\/body>/i,
\* scriptTag) with scriptTag a string, or at the end of the document.
InjectSelection(html, script) ==
  LET i == IndexFrom(html, HtmlLit.body, 1, TRUE)
      tag == HtmlLit.scriptTag \o script \o HtmlLit.scriptClose
  IN  IF i = 0 THEN html \o tag
      ELSE SubSeq(html, 1, i - 1)
             \o GetSubstitution(tag \o HtmlLit.body, html, i, Len(HtmlLit.body))
             \o Drop(html, i + Len(HtmlLit.body))

\* The HTML branch of GET: the five passes in the order of the source, innermost
\* first, each one applied to the text the pass before it left (a set of one text).
RewriteHtml(id, html, script) ==
  CHOOSE out \in
    {InjectSelection(flight, script) : flight \in
      {ReplaceFrom([k \in 1..Len(modules) |-> FlightMatchAt(id, modules, k)], modules, 1) :
         modules \in
        {ReplaceFrom([k \in 1..Len(attrs) |-> ModuleScriptMatchAt(id, attrs, k)], attrs, 1) :
           attrs \in
          {ReplaceFrom([k \in 1..Len(injected) |-> AttrMatchAt(id, injected, k)], injected, 1) :
             injected \in {InjectBootstrap(html, id)}}}}} : TRUE

----------------------------------------------------------------------------
(* Content Rewriter: style sheets and scripts.                             *)

\* The literals of the style and script passes.
AssetLit ==
  [ url |-> <<"u", "r", "l", "(">>,
    notUrl |-> {<<"h", "t", "t", "p">>, <<"d", "a", "t", "a", ":">>, <<"#">>},
    webpack |-> <<"w", "e", "b", "p", "a", "c", "k">>,
    dummy |-> <<"h", "t", "t", "p", ":", "/", "/", "d", "u", "m", "m", "y">>,
    publicPath |-> <<"_", "_", "w", "e", "b", "p", "a", "c", "k", "_", "r", "e", "q", "u", "i", "r", "e", "_", "_", ".", "p">>,
    pathname |-> <<"n", "e", "w", " ", "U", "R", "L", "(", "h", "r", "e", "f", ")", ".", "p", "a", "t", "h", "n", "a", "m", "e">>,
    plusSearch |-> <<"+", "n", "e", "w", " ", "U", "R", "L", "(", "h", "r", "e", "f", ")", ".", "s", "e", "a", "r", "c", "h">>,
    default |-> <<"d", "e", "f", "a", "u", "l", "t">>,
    queryUrl |-> <<"?", "u", "r", "l">>,
    dotSlash |-> <<".", "/">>,
    dotDotSlash |-> <<".", ".", "/">> ]

\* String.prototype.trim
Trim(s) ==
  IF \A k \in 1..Len(s) : IsSpace(s[k]) THEN <<>>
  ELSE SubSeq(s, SkipSpace(s, 1),
              CHOOSE j \in 1..Len(s) : ~IsSpace(s[j]) /\ \A k \in (j + 1)..Len(s) : IsSpace(s[k]))

\* /url\(\s*(['"]?)(?!http|data:|#)([^'")]+)\1\s*\)/gi at position i, and its replacer.
\* Rest(p) is the rest of the regex from the optional quote on, at p; the greedy \s* is
\* tried whole and then one character shorter (shorter still gives the same match).
UrlMatchAt(id, s, i) ==
  LET a == i + Len(AssetLit.url)
      b == SkipSpace(s, a)
      Rest(p) ==
        LET quote == IF p <= Len(s) /\ s[p] \in Quotes THEN <<s[p]>> ELSE <<>>
            start == p + Len(quote)
            e     == FindChar(s, start, Quotes \cup {")"})
            close == IF quote = <<>> THEN e ELSE SkipSpace(s, e + 1)
            cleanPath == Trim(SubSeq(s, start, e - 1))
            absolutePath == IF StartsWith(cleanPath, PathLit.slash) THEN cleanPath
                            ELSE PathLit.slash \o cleanPath
        IN  IF \E l \in AssetLit.notUrl : LitAt(s, start, l, TRUE) THEN NoMatch
            ELSE IF e = start \/ e > Len(s) THEN NoMatch
            ELSE IF quote # <<>> /\ <<s[e]>> # quote THEN NoMatch
            ELSE IF close > Len(s) \/ s[close] # ")" THEN NoMatch
            ELSE [len |-> close - i + 1,
                  out |-> AssetLit.url \o quote \o ProxyPrefix(id)
                            \o encodeURIComponent(absolutePath) \o quote \o <<")">>]
  IN  IF ~LitAt(s, i, AssetLit.url, TRUE) THEN NoMatch
      ELSE IF Rest(b).len > 0 THEN Rest(b)
      ELSE IF b > a THEN Rest(b - 1)
      ELSE NoMatch

\* The webpack block of the script branch: the publicPath regex
\* /__webpack_require__\.p\s*=\s*["'](\/_next\/)["']/g and the pathname patch
\* /new URL\(href\)\.pathname/g, both under the condition of the block.
RewriteWebpack(id, path, js) ==
  LET PublicPathAt(s, i) ==
        LET b == SkipSpace(s, i + Len(AssetLit.publicPath))
            c == SkipSpace(s, b + 1)
            d == c + 1 + Len(HtmlLit.next)
        IN  IF ~LitAt(s, i, AssetLit.publicPath, FALSE) \/ b > Len(s) THEN NoMatch
            ELSE IF s[b] # "=" \/ c > Len(s) THEN NoMatch
            ELSE IF s[c] \notin Quotes \/ ~LitAt(s, c + 1, HtmlLit.next, FALSE) THEN NoMatch
            ELSE IF d > Len(s) THEN NoMatch
            ELSE IF s[d] \notin Quotes THEN NoMatch
            ELSE [len |-> d - i + 1,
                  out |-> AssetLit.publicPath \o <<"=", "\"">> \o ProxyPrefix(id)
                            \o encodeURIComponent(HtmlLit.next) \o <<"\"">>]
      PathnameAt(s, i) ==
        IF LitAt(s, i, AssetLit.pathname, FALSE)
        THEN [len |-> Len(AssetLit.pathname), out |-> AssetLit.pathname \o AssetLit.plusSearch]
        ELSE NoMatch
  IN  IF /\ Includes(path, AssetLit.webpack)
         /\ \E k \in 1..Len(path) :
              /\ LitAt(path, k, TypeLit.dotJs, FALSE)
              /\ (k + Len(TypeLit.dotJs) > Len(path) \/ path[k + Len(TypeLit.dotJs)] = "?")
         /\ Includes(js, AssetLit.publicPath)
      THEN CHOOSE out \in
             {ReplaceFrom([k \in 1..Len(p) |-> PathnameAt(p, k)], p, 1) :
                p \in {ReplaceFrom([k \in 1..Len(js) |-> PublicPathAt(js, k)], js, 1)}} : TRUE
      ELSE js

\* /export\s+default\s+"(\/[^"]+\.css)"/g at position i, and its replacer.
ExportMatchAt(id, s, i) ==
  LET a == i + Len(HtmlLit.export)
      b == SkipSpace(s, a)
      c == b + Len(AssetLit.default)
      d == SkipSpace(s, c)
      e == FindChar(s, d + 1, {"\""})
      cssPath == SubSeq(s, d + 1, e - 1)
  IN  IF ~LitAt(s, i, HtmlLit.export, FALSE) \/ b = a THEN NoMatch
      ELSE IF ~LitAt(s, b, AssetLit.default, FALSE) \/ d = c \/ d > Len(s) THEN NoMatch
      ELSE IF s[d] # "\"" \/ e > Len(s) THEN NoMatch
      ELSE IF Len(cssPath) < Len(TypeLit.dotCss) + 2 \/ ~StartsWith(cssPath, PathLit.slash) THEN NoMatch
      ELSE IF ~EndsWith(cssPath, TypeLit.dotCss) THEN NoMatch
      ELSE [len |-> e - i + 1,
            out |-> HtmlLit.export \o <<" ">> \o AssetLit.default \o <<" ", "\"">>
                      \o ProxyPrefix(id) \o encodeURIComponent(cssPath \o TypeLit.direct)
                      \o <<"\"">>]

\* The segments of rest (the text after a slash), joined again after the removal of
\* the dot segments; done holds the segments kept so far.
RECURSIVE ResolveDots(_, _)
ResolveDots(done, rest) ==
  LET e    == FindChar(rest, 1, {"/"})
      seg  == SubSeq(rest, 1, e - 1)
      dots == seg \in {<<".">>, <<".", ".">>}
      kept == IF seg = <<".">> THEN done
              ELSE IF seg = <<".", ".">> THEN SubSeq(done, 1, Len(done) - 1)
              ELSE Append(done, seg)
  IN  IF e <= Len(rest) THEN ResolveDots(kept, Drop(rest, e + 1))
      ELSE IF kept = <<>> THEN PathLit.slash
      ELSE Concat([k \in 1..Len(kept) |-> PathLit.slash \o kept[k]])
             \o (IF dots THEN PathLit.slash ELSE <<>>)

\* The base of the resolution, `http://dummy${moduleDir}/`, moduleDir being
\* path.substring(0, path.lastIndexOf('/')).
ModuleBase(path) ==
  AssetLit.dummy \o SubSeq(path, 1, LastIndexOf(path, "/") - 1) \o PathLit.slash

\* new URL(cssPath, base).pathname for a base the URL parser accepts and a relative
\* cssPath without ?, # and characters the parser escapes: the directory of the
\* base's path (what follows the authority, up to a ? or #), then cssPath, dots
\* resolved.
ResolvePathname(cssPath, path) ==
  LET rest  == Drop(ModuleBase(path), Len(TargetLit.http) + 1)
      cut   == FirstIndexIn(rest, AuthorityEnders)
      basePath == IF rest[cut] = "/"
                  THEN SubSeq(rest, cut, FindChar(rest, cut, {"?", "#"}) - 1)
                  ELSE PathLit.slash
      dir   == SubSeq(basePath, 1, LastIndexOf(basePath, "/"))
  IN  ResolveDots(<<>>, Drop(dir \o cssPath, 2))

\* The text holds the mark of a replacer that threw: the passes after it are not
\* run and the text is discarded.
Threw(text) == \E k \in 1..Len(text) : text[k] = ErrorLit.thrown

\* /(from\s+["'])([^"']+\.css)(\?url)?(["'])/g at position i, and its replacer,
\* which throws when new URL rejects the base (TypeError: Invalid URL): the mark.
CssImportMatchAt(id, path, s, i) ==
  LET p == KeywordQuoteAt(s, i, HtmlLit.from, "spaced", FALSE)
      e == FindChar(s, p, Quotes)
      text == SubSeq(s, p, e - 1)
      urlParam == IF EndsWith(text, TypeLit.dotCss \o AssetLit.queryUrl) THEN AssetLit.queryUrl
                  ELSE <<>>
      cssPath == SubSeq(text, 1, Len(text) - Len(urlParam))
      relative == StartsWith(cssPath, AssetLit.dotSlash)
                    \/ StartsWith(cssPath, AssetLit.dotDotSlash)
      absolutePath == IF relative THEN ResolvePathname(cssPath, path) ELSE cssPath
  IN  IF p = 0 \/ e > Len(s) THEN NoMatch
      ELSE IF ~EndsWith(cssPath, TypeLit.dotCss) \/ Len(cssPath) <= Len(TypeLit.dotCss) THEN NoMatch
      ELSE IF Includes(cssPath, HtmlLit.apiProjects)
      THEN [len |-> e - i + 1, out |-> SubSeq(s, i, e)]
      ELSE IF relative /\ ~ParseUrl(ModuleBase(path)).ok
      THEN [len |-> e - i + 1, out |-> <<ErrorLit.thrown>>]
      ELSE [len |-> e - i + 1,
            out |-> SubSeq(s, i, p - 1) \o ProxyPrefix(id) \o encodeURIComponent(absolutePath)
                      \o urlParam \o <<s[e]>>]

\* The script branch with the generic import pass outside its guard: applied to
\* ?url modules as well.
RewriteScript_ImportsAlways(id, path, js) ==
  CHOOSE out \in
    {ReplaceFrom([k \in 1..Len(c) |-> ImportMatchAt(id, c, k, TRUE)], c, 1) :
       c \in {IF Includes(path, AssetLit.queryUrl)
              THEN ReplaceFrom([k \in 1..Len(w) |-> ExportMatchAt(id, w, k)], w, 1)
              ELSE ReplaceFrom([k \in 1..Len(w) |-> CssImportMatchAt(id, path, w, k)], w, 1) :
              w \in {RewriteWebpack(id, path, js)}}} : TRUE

\* The script branch of GET: the webpack block, then for a ?url module the export
\* pass, for any other module the CSS-import pass and the generic import pass.
RewriteScript(id, path, js) ==
  CHOOSE out \in
    {IF Includes(path, AssetLit.queryUrl)
     THEN ReplaceFrom([k \in 1..Len(w) |-> ExportMatchAt(id, w, k)], w, 1)
     ELSE CHOOSE imports \in
            {IF Threw(c) THEN c
             ELSE ReplaceFrom([k \in 1..Len(c) |-> ImportMatchAt(id, c, k, TRUE)], c, 1) :
               c \in {ReplaceFrom([k \in 1..Len(w) |-> CssImportMatchAt(id, path, w, k)], w, 1)}} :
            TRUE :
     w \in {RewriteWebpack(id, path, js)}} : TRUE

\* The style branch of GET.
RewriteStyle(id, css) ==
  ReplaceFrom([k \in 1..Len(css) |-> UrlMatchAt(id, css, k)], css, 1)

----------------------------------------------------------------------------
(* Values of the model's inputs.                                           *)

Reqs == {"q1"}

Methods == {"GET", "POST"}

\* Values of the path query parameter (<<>>: absent).
RawPaths == {<<>>, Sample.pathA, Sample.pathDigit, Sample.pathDot, Sample.pathCred, Sample.pathChunk,
             Sample.pathApi, Sample.pathViteChunk}

\* Values of the Host request header.
Hosts == {Sample.hostLocal, Sample.hostLoop, Sample.hostRemote}

Statuses == {"stopped", "running"}

\* devServerPort (0: null)
Ports == {0, 3000}

\* tunnelUrl (<<>>: null)
TunnelUrls == {<<>>, Sample.tunnelUrl}

\* runnerId ("": null)
RunnerIds == {"", "r1"}

\* The pieces the paths given to the normalizer are made of.
PathTokens ==
  {PathLit.slash, PathLit.static, Sample.dirStatic, Sample.dirNext, Sample.fileX}
    \cup {d \o PathLit.slash : d \in NextAssetDirs}

\* The largest number of pieces of such a path.
MaxPathTokens == 4

\* The paths given to the normalizer.
NormPaths == {Concat(ts) : ts \in UNION {[1..n -> PathTokens] : n \in 0..MaxPathTokens}}

\* The id of the route: /api/projects/p1/proxy.
ProjectId == <<"p", "1">>

\* The pieces the HTML documents given to the rewriter are made of.
HtmlFragments ==
  { <<"<", "h", "e", "a", "d", ">">>,
    <<"<", "h", "e", "a", "d", " ", "l", "a", "n", "g", "=", "\"", "e", "n", "\"", ">">>,
    <<"<", "s", "c", "r", "i", "p", "t", " ", "s", "r", "c", "=", "\"", "/", "a", ".", "j", "s", "\"", ">", "<", "/", "s", "c", "r", "i", "p", "t", ">">>,
    <<"<", "i", "m", "g", " ", "s", "r", "c", "=", "'", "/", "b", ".", "p", "n", "g", "'", ">">>,
    <<"<", "i", "m", "g", " ", "s", "r", "c", "=", "/", "c", ".", "p", "n", "g", ">">>,
    <<"<", "l", "i", "n", "k", " ", "h", "r", "e", "f", "=", "\"", "/", "s", ".", "c", "s", "s", "\"", ">">>,
    <<"<", "l", "i", "n", "k", " ", "h", "r", "e", "f", "=", "\"", "/", "t", ".", "c", "s", "s", "?", "v", "=", "1", "\"", ">">>,
    <<"<", "a", " ", "h", "r", "e", "f", "=", "\"", "h", "t", "t", "p", "s", ":", "/", "/", "x", ".", "i", "o", "/", "\"", ">">>,
    <<"<", "i", "m", "g", " ", "s", "r", "c", "=", "\"", "/", "a", "p", "i", "/", "p", "r", "o", "j", "e", "c", "t", "s", "/", "p", "1", "/", "p", "r", "o", "x", "y", "?", "p", "a", "t", "h", "=", "%", "2", "F", "d", ".", "p", "n", "g", "\"", ">">>,
    <<"<", "i", "m", "g", " ", "s", "r", "c", "=", "\"", "d", "a", "t", "a", ":", ",", "x", "\"", ">">>,
    <<"<", "/", "b", "o", "d", "y", ">">>,
    <<"<", "s", "c", "r", "i", "p", "t", " ", "t", "y", "p", "e", "=", "\"", "m", "o", "d", "u", "l", "e", "\"", ">", "i", "m", "p", "o", "r", "t", " ", "a", " ", "f", "r", "o", "m", " ", "\"", "/", "m", ".", "j", "s", "\"", "<", "/", "s", "c", "r", "i", "p", "t", ">">>,
    <<"<", "s", "c", "r", "i", "p", "t", ">", "s", "e", "l", "f", ".", "_", "_", "n", "e", "x", "t", "_", "f", ".", "p", "u", "s", "h", "(", "[", "1", ",", "\"", "/", "_", "n", "e", "x", "t", "/", "x", "\"", "]", ")", "<", "/", "s", "c", "r", "i", "p", "t", ">">> }

\* The largest number of pieces of such a document.
MaxFragments == 3

\* Bodies the selection package may supply as SELECTION_SCRIPT.
SelectionScripts ==
  { HtmlLit.selection,
    <<"s", ".", "r", "e", "p", "l", "a", "c", "e", "(", "/", "\\", "W", "/", "g", ",", "'", "\\", "\\", "$", "&", "'", ")">>,
    <<"p", "=", "\"", "$", "$", "\"">>,
    <<"q", "=", "'", "$", "'", "+", "n", ";">> }

\* The HTML documents given to the rewriter.
HtmlDocs == {Concat(fs) : fs \in UNION {[1..n -> HtmlFragments] : n \in 1..MaxFragments}}

\* The pieces the style sheets given to the rewriter are made of.
CssFragments ==
  { <<"f", "i", "l", "l", ":", "u", "r", "l", "(", "#", "g", ")", ";">>,
    <<"f", "i", "l", "l", ":", "u", "r", "l", "(", " ", "#", "g", ")", ";">>,
    <<"s", "r", "c", ":", "u", "r", "l", "(", "/", "a", ".", "p", "n", "g", ")", ";">>,
    <<"s", "r", "c", ":", "u", "r", "l", "(", "\"", "b", ".", "p", "n", "g", "\"", ")", ";">>,
    <<"s", "r", "c", ":", "u", "r", "l", "(", " ", "'", "/", "c", ".", "p", "n", "g", "'", " ", ")", ";">>,
    <<"s", "r", "c", ":", "u", "r", "l", "(", "h", "t", "t", "p", ":", "/", "/", "x", ".", "i", "o", "/", "a", ")", ";">>,
    <<"s", "r", "c", ":", "u", "r", "l", "(", "d", "a", "t", "a", ":", ",", "x", ")", ";">>,
    <<"s", "r", "c", ":", "U", "R", "L", "(", "h", "t", "t", "p", "s", ":", "/", "/", "x", ".", "i", "o", "/", "a", ")", ";">>,
    <<"s", "r", "c", ":", "u", "r", "l", "(", "h", "t", "t", "p", "x", ".", "p", "n", "g", ")", ";">>,
    <<"c", "o", "l", "o", "r", ":", "r", "e", "d", ";">> }

\* The style sheets given to the rewriter.
CssDocs == {Concat(fs) : fs \in UNION {[1..n -> CssFragments] : n \in 1..MaxFragments}}

\* The logical paths of the scripts given to the rewriter.
ScriptPaths == {<<"/", "s", "r", "c", "/", "a", "p", "p", ".", "c", "s", "s", "?", "u", "r", "l">>, <<"/", "s", "r", "c", "/", "r", "/", "r", "o", "o", "t", ".", "t", "s", "x">>, <<"/", "_", "n", "e", "x", "t", "/", "w", "e", "b", "p", "a", "c", "k", ".", "j", "s">>, <<"/", "_", "n", "e", "x", "t", "/", "m", "a", "i", "n", ".", "j", "s">>,
                <<"b", ":", "c", "/", "r", "o", "o", "t", ".", "t", "s", "x">>}

\* The pieces the scripts given to the rewriter are made of.
JsFragments ==
  { <<"e", "x", "p", "o", "r", "t", " ", "d", "e", "f", "a", "u", "l", "t", " ", "\"", "/", "s", "r", "c", "/", "a", "p", "p", ".", "c", "s", "s", "\"">>,
    <<"i", "m", "p", "o", "r", "t", " ", "a", " ", "f", "r", "o", "m", " ", "\"", "/", "s", "r", "c", "/", "m", ".", "j", "s", "\"", ";">>,
    <<"i", "m", "p", "o", "r", "t", " ", "c", " ", "f", "r", "o", "m", " ", "'", ".", ".", "/", "a", "p", "p", ".", "c", "s", "s", "?", "u", "r", "l", "'", ";">>,
    <<"i", "m", "p", "o", "r", "t", " ", "d", " ", "f", "r", "o", "m", " ", "\"", "/", "s", "r", "c", "/", "d", ".", "c", "s", "s", "\"", ";">>,
    <<"i", "m", "p", "o", "r", "t", " ", "e", " ", "f", "r", "o", "m", " ", "\"", "a", "p", "p", ".", "c", "s", "s", "\"", ";">>,
    <<"i", "m", "p", "o", "r", "t", "(", "\"", "/", "s", "r", "c", "/", "l", "a", "z", "y", ".", "j", "s", "\"", ")", ";">>,
    <<"e", "x", "p", "o", "r", "t", " ", "*", " ", "f", "r", "o", "m", " ", "\"", "/", "a", "p", "i", "/", "p", "r", "o", "j", "e", "c", "t", "s", "/", "p", "1", "/", "e", ".", "j", "s", "\"", ";">>,
    <<"_", "_", "w", "e", "b", "p", "a", "c", "k", "_", "r", "e", "q", "u", "i", "r", "e", "_", "_", ".", "p", " ", "=", " ", "\"", "/", "_", "n", "e", "x", "t", "/", "\"", ";">>,
    <<"_", "_", "w", "e", "b", "p", "a", "c", "k", "_", "r", "e", "q", "u", "i", "r", "e", "_", "_", ".", "p", "=", "\"", "/", "a", "s", "s", "e", "t", "s", "/", "\"", ";">>,
    <<"v", "a", "r", " ", "p", "=", "n", "e", "w", " ", "U", "R", "L", "(", "h", "r", "e", "f", ")", ".", "p", "a", "t", "h", "n", "a", "m", "e", ";">>,
    <<"x", " ", "=", " ", "1", ";">> }

\* The largest number of pieces of such a script.
MaxStatements == 2

\* The scripts given to the rewriter.
JsDocs == {Concat(fs) : fs \in UNION {[1..n -> JsFragments] : n \in 1..MaxStatements}}

\* The body and the Content-Type header of an inbound POST (<<>>: none): a POST
\* without either, and a binary body with a Content-Type.
InboundPayloads == {[body |-> <<>>, contentType |-> <<>>],
                    [body |-> Sample.bodyBytes, contentType |-> Sample.typeForm]}

\* Status codes for which the Response constructor rejects a non-null body (and for
\* which a reply has no body).
NullBodyStatuses == {101, 103, 204, 205, 304}

\* No error object.
NoError == [cls |-> "", name |-> "", message |-> <<>>]

\* Status codes an upstream reply may carry besides 200.
OtherStatuses == {204, 304, 404, 500}

\* Content-Type of an upstream reply (<<>>: no header).
ContentTypes == {<<>>, Sample.typeHtml, Sample.typeJs, Sample.typeCss, Sample.typePng}

\* Cache-Control of an upstream reply ("": no header).
UpstreamCacheControls == {"", "max-age=3600"}

\* The upstream replies of the model: a 200 with every content type and cache
\* header, and every other status with and without a content type.
UpstreamReplySet ==
  [kind : {"reply"}, status : {200}, contentType : ContentTypes,
   cacheControl : UpstreamCacheControls, body : {Sample.bodyJson}, error : {NoError}]
  \cup [kind : {"reply"}, status : OtherStatuses \ NullBodyStatuses,
        contentType : {<<>>, Sample.typePng}, cacheControl : {""}, body : {Sample.bodyJson},
        error : {NoError}]
  \cup [kind : {"reply"}, status : OtherStatuses \cap NullBodyStatuses,
        contentType : {<<>>, Sample.typePng}, cacheControl : {""}, body : {<<>>},
        error : {NoError}]

----------------------------------------------------------------------------
(* State.                                                                  *)

VARIABLES
  projects,          \* the rows of the projects table with the requested id (none or one)
  connectedRunners,  \* the runner ids buildWebSocketServer holds a connection for
  USE_WS_PROXY,      \* the module-level feature flag read from the environment
  req,               \* per request slot: the handler's position and locals
  run                \* one application of a pure step of the handlers: input and result

vars == <<projects, connectedRunners, USE_WS_PROXY, req, run>>

NoHeaders == [contentType |-> <<>>, cacheControl |-> "", allowOrigin |-> "",
              allowMethods |-> "", allowHeaders |-> "", tunnelStatus |-> "",
              proxyMode |-> ""]

NoResponse == [kind |-> "none", status |-> 0, headers |-> NoHeaders,
               branch |-> "", error |-> NoError, body |-> <<>>]

NoRow == [devServerStatus |-> "stopped", devServerPort |-> 0, tunnelUrl |-> <<>>,
          runnerId |-> ""]

NoUpstream == [kind |-> "none", status |-> 0, contentType |-> <<>>, cacheControl |-> "",
               body |-> <<>>, error |-> NoError]

Idle == [pc |-> "idle", method |-> "", path |-> <<>>, host |-> <<>>,
         body |-> <<>>, contentType |-> <<>>,
         found |-> FALSE, proj |-> NoRow, runnerConnected |-> FALSE,
         decision |-> "", calls |-> <<>>, elapsed |-> FALSE, callerClosed |-> FALSE,
         upstream |-> NoUpstream, resp |-> NoResponse]

NoRun == [kind |-> "none", path |-> <<>>, contentType |-> <<>>, input |-> <<>>,
          script |-> HtmlLit.selection, applied |-> FALSE, status |-> 0, output |-> <<>>]

\* No project row, no runner attached; the flag is what the environment set.
Init ==
  /\ projects = <<>>
  /\ connectedRunners = {}
  /\ USE_WS_PROXY \in BOOLEAN
  /\ req = [r \in Reqs |-> Idle]
  /\ run = NoRun

----------------------------------------------------------------------------
(* Responses and thrown errors.                                            *)

Thrown(cls, name, message) ==
  [kind |-> "throw", status |-> 0, headers |-> NoHeaders, branch |-> "",
   error |-> [cls |-> cls, name |-> name, message |-> message], body |-> <<>>]

\* new Response(body, { status, headers }) / new NextResponse(...) with a non-null
\* body: a RangeError for a status outside 200..599, a TypeError for a null-body
\* status, else the response.
NewResponse(status, headers, branch) ==
  IF status < 200 \/ status > 599
  THEN Thrown("RangeError", "RangeError", ErrorLit.invalidStatus)
  ELSE IF status \in NullBodyStatuses
  THEN Thrown("TypeError", "TypeError", ErrorLit.invalidStatus)
  ELSE [kind |-> "response", status |-> status, headers |-> headers,
        branch |-> branch, error |-> NoError, body |-> <<>>]

\* new NextResponse(null, { status, headers })
NewEmptyResponse(status, headers) ==
  [kind |-> "response", status |-> status, headers |-> headers,
   branch |-> "", error |-> NoError, body |-> <<>>]

\* The body handed to the constructor, on the response it built.
WithBody(resp, body) == IF resp.kind = "response" THEN [resp EXCEPT !.body = body] ELSE resp

\* response.ok
IsOk(status) == status >= 200 /\ status <= 299

----------------------------------------------------------------------------
(* OPTIONS                                                                 *)

OptionsResponse ==
  NewEmptyResponse(204, [NoHeaders EXCEPT !.allowOrigin = "*",
                                          !.allowMethods = "GET, POST, OPTIONS",
                                          !.allowHeaders = "*"])

----------------------------------------------------------------------------
(* Transport Resolver.                                                     *)

\* The check with the port test left out.
NotRunning_StatusOnly(proj) == proj.devServerStatus # "running"

\* proj.devServerStatus !== 'running' || !proj.devServerPort
NotRunning(proj) == proj.devServerStatus # "running" \/ proj.devServerPort = 0

\* requestHost.includes('localhost') || requestHost.includes('127.0.0.1')
FrontendIsLocal(host) == Includes(host, TargetLit.localhost) \/ Includes(host, TargetLit.loopbackIp)

\* The chain with the tunnel branch tested before the relay branch.
SelectTransportGET_TunnelFirst(proj, host, wsFlag, connected) ==
  IF FrontendIsLocal(host) THEN "DirectLocal"
  ELSE IF proj.tunnelUrl # <<>> THEN "TunnelRemote"
  ELSE IF wsFlag /\ proj.runnerId # "" /\ connected THEN "RelayChannel"
  ELSE "Pending"

\* The if / else-if chain of GET that picks the transport.
SelectTransportGET(proj, host, wsFlag, connected) ==
  IF FrontendIsLocal(host) THEN "DirectLocal"
  ELSE IF wsFlag /\ proj.runnerId # "" /\ connected THEN "RelayChannel"
  ELSE IF proj.tunnelUrl # <<>> THEN "TunnelRemote"
  ELSE "Pending"

\* The if / else-if chain of POST that picks the transport.
SelectTransportPOST(proj, host, wsFlag, connected) ==
  IF FrontendIsLocal(host) THEN "DirectLocal"
  ELSE IF wsFlag /\ proj.runnerId # "" /\ connected THEN "RelayChannel"
  ELSE IF proj.tunnelUrl # <<>> THEN "TunnelRemote"
  ELSE "Pending"

\* targetUrl of the two fetch transports.
TargetUrl(decision, proj, path) ==
  IF decision = "DirectLocal"
  THEN TargetLit.httpLocalhost \o ToDigits(proj.devServerPort) \o path
  ELSE proj.tunnelUrl \o path

\* The 202 responses with the marker header left off the relay variant.
PendingResponse_NoMarker(proj, wsFlag) ==
  IF wsFlag /\ proj.runnerId # ""
  THEN NewResponse(202, [NoHeaders EXCEPT !.proxyMode = "websocket"], "")
  ELSE NewResponse(202, [NoHeaders EXCEPT !.tunnelStatus = "pending"], "")

\* The two 202 responses of the last two branches of the chain.
PendingResponse(proj, wsFlag) ==
  IF wsFlag /\ proj.runnerId # ""
  THEN NewResponse(202, [NoHeaders EXCEPT !.tunnelStatus = "pending",
                                          !.proxyMode = "websocket"], "")
  ELSE NewResponse(202, [NoHeaders EXCEPT !.tunnelStatus = "pending"], "")

NotFoundResponse == NewResponse(404, NoHeaders, "")

NotRunningResponse == NewResponse(503, NoHeaders, "")

\* No catch: whatever was thrown leaves the handler.
ProxyFailed_NoCatch(outcome) == outcome

\* The outer catch of GET and the catch of POST: `Proxy failed: ...`, status 500.
ProxyFailed(outcome) ==
  IF outcome.kind = "throw" THEN NewResponse(500, NoHeaders, "") ELSE outcome

----------------------------------------------------------------------------
(* Request Forwarder: the upstream call.                                   *)

\* AbortSignal.timeout(30000)
FetchTimeoutMs == 30000

\* The reason an AbortSignal.timeout signal aborts with, which fetch rejects with.
AbortSignalTimeoutReason ==
  [cls |-> "DOMException", name |-> "TimeoutError", message |-> ErrorLit.timedOut]

\* Messages of the TypeError fetch rejects with on a transport-level failure
\* (the runtime's wording: undici's and the browsers').
FetchFailureMessages == {ErrorLit.fetchFailed, ErrorLit.failedToFetch}

\* The error httpProxyManager.proxyRequest rejects with when the relay peer is gone.
RelayFailure == [cls |-> "Error", name |-> "Error", message |-> ErrorLit.relayError]

\* The names of the error httpProxyManager.proxyRequest may reject with when no
\* correlated response arrives in time (the relay's framing is opaque).
RelayTimeoutErrorNames == {"Error", "TimeoutError", "AbortError"}

\* No upstream call; callerSignal: the call was given the inbound request's abort
\* signal (req.signal), which no call of the handlers is.
NoCall == [transport |-> "", ok |-> FALSE, host |-> <<>>, port |-> 0, runner |-> "",
           timeoutMs |-> 0, callerSignal |-> FALSE, error |-> NoError, body |-> <<>>,
           contentType |-> <<>>]

\* fetch(targetUrl, { signal }) up to the point where the request is on the wire:
\* the URL is parsed, and a URL that does not parse or carries credentials is a
\* TypeError before any connection is made.
FetchCall(url, timeoutMs) ==
  LET u == ParseUrl(url)
  IN  IF ~u.ok
      THEN [NoCall EXCEPT !.transport = "fetch",
              !.error = [cls |-> "TypeError", name |-> "TypeError", message |-> ErrorLit.failedToParse]]
      ELSE IF u.credentials
      THEN [NoCall EXCEPT !.transport = "fetch",
              !.error = [cls |-> "TypeError", name |-> "TypeError", message |-> ErrorLit.hasCredentials]]
      ELSE [NoCall EXCEPT !.transport = "fetch", !.ok = TRUE, !.host = u.host,
              !.port = u.port, !.timeoutMs = timeoutMs]

\* httpProxyManager.proxyRequest(runnerId, projectId, port, { method, path, ... })
RelayCall(runnerId, port) ==
  [NoCall EXCEPT !.transport = "relay", !.ok = TRUE, !.runner = runnerId, !.port = port]

\* The upstream call GET issues for a decision.
ForwardGET(decision, proj, path) ==
  IF decision = "RelayChannel" THEN RelayCall(proj.runnerId, proj.devServerPort)
  ELSE FetchCall(TargetUrl(decision, proj, path), FetchTimeoutMs)

\* The upstream call POST issues for a decision: its fetch carries no signal.
ForwardPOST(decision, proj, path) ==
  IF decision = "RelayChannel" THEN RelayCall(proj.runnerId, proj.devServerPort)
  ELSE FetchCall(TargetUrl(decision, proj, path), 0)

\* req.headers.get('content-type') || 'application/json'
InboundContentTypeOrJson(contentType) ==
  IF contentType = <<>> THEN TypeLit.applicationJson ELSE contentType

\* The body and the Content-Type header POST puts on its upstream call: the bytes of
\* req.arrayBuffer() (for the relay: Buffer.from of them, or undefined when there
\* are none) and the inbound Content-Type or its default.
PostPayload(call, body, contentType) ==
  [call EXCEPT !.body = body, !.contentType = InboundContentTypeOrJson(contentType)]

\* fetchViaWsProxy: the relay's result wrapped in new Response(new Uint8Array(body), ...).
RelayResponse(up) == NewResponse(up.status, NoHeaders, "")

----------------------------------------------------------------------------
(* GET: from the upstream outcome to the response.                         *)

\* The catch around the upstream call of GET.
ForwardCatchGET(err) ==
  IF err.name = "AbortError"
  THEN NewResponse(504, NoHeaders, "")
  ELSE IF err.cls = "TypeError" /\ Includes(err.message, ErrorLit.failedToFetch)
  THEN NewResponse(404, [NoHeaders EXCEPT !.contentType = TypeLit.textPlain,
                                          !.allowOrigin = "*"], "")
  ELSE Thrown(err.cls, err.name, err.message)

\* path.includes('/node_modules/.vite/') || /chunk-[A-Z0-9]+\.js/i.test(path)
IsViteChunk(path) ==
  \/ Includes(path, TypeLit.nodeModulesVite)
  \/ \E i \in 1..Len(path) : \E k \in 1..Len(path) :
       /\ i + Len(TypeLit.chunkDash) + k + Len(TypeLit.dotJs) - 1 <= Len(path)
       /\ LowerStr(SubSeq(path, i, i + Len(TypeLit.chunkDash) - 1)) = TypeLit.chunkDash
       /\ \A j \in (i + Len(TypeLit.chunkDash))..(i + Len(TypeLit.chunkDash) + k - 1) : IsAlnum(path[j])
       /\ LowerStr(SubSeq(path, i + Len(TypeLit.chunkDash) + k,
                          i + Len(TypeLit.chunkDash) + k + Len(TypeLit.dotJs) - 1)) = TypeLit.dotJs

\* The condition of the JavaScript/TypeScript branch.
IsScriptResponse(contentType, path) ==
  \/ Includes(contentType, TypeLit.javascript)
  \/ Includes(contentType, TypeLit.typescript)
  \/ Includes(path, TypeLit.vite)
  \/ Includes(path, TypeLit.reactRefresh)
  \/ EndsWith(path, TypeLit.tsx)
  \/ EndsWith(path, TypeLit.ts)
  \/ EndsWith(path, TypeLit.jsx)
  \/ EndsWith(path, TypeLit.mjs)
  \/ (EndsWith(path, TypeLit.dotCss) /\ ~Includes(path, TypeLit.direct))

\* The condition of the CSS branch.
IsStyleResponse(contentType) ==
  Includes(contentType, TypeLit.textCss) \/ Includes(contentType, TypeLit.stylesheet)

\* isViteChunk ? 'public, max-age=600, immutable' : 'no-cache'
ChunkCacheControl(path) ==
  IF IsViteChunk(path) THEN "public, max-age=600, immutable" ELSE "no-cache"

\* The headers of the passthrough branch: the upstream's, then the CORS headers,
\* then the Cache-Control override for server functions and API routes.
PassthroughHeaders(up, path) ==
  [NoHeaders EXCEPT
     !.contentType  = up.contentType,
     !.cacheControl = IF StartsWith(path, TypeLit.serverFn) \/ StartsWith(path, TypeLit.api)
                      THEN "no-cache, no-store, must-revalidate"
                      ELSE up.cacheControl,
     !.allowOrigin  = "*",
     !.allowMethods = "GET, POST, OPTIONS",
     !.allowHeaders = "*"]

\* The body GET answers a 200 reply with: the dispatch on the content type (and the
\* path) to the HTML, script and style rewriters, or the upstream's bytes.
RewriteBody(id, contentType, path, body, script) ==
  IF Includes(contentType, TypeLit.textHtml) THEN RewriteHtml(id, body, script)
  ELSE IF IsScriptResponse(contentType, path) THEN RewriteScript(id, path, body)
  ELSE IF IsStyleResponse(contentType) THEN RewriteStyle(id, body)
  ELSE body

\* The status and the body GET answers a 200 reply with: the branch's response, or
\* the outer catch's `Proxy failed: ${error.message}` with status 500 when a pass threw.
RewriteResponse(id, contentType, path, body, script) ==
  CHOOSE resp \in
    {IF Threw(out)
     THEN [status |-> 500, body |-> ErrorLit.proxyFailed \o ErrorLit.invalidUrl]
     ELSE [status |-> 200, body |-> out] :
       out \in {RewriteBody(id, contentType, path, body, script)}} : TRUE

\* GET after the upstream replied: the upstream-error return and the four branches.
RespondGET(up, path) ==
  IF ~IsOk(up.status)
  THEN NewResponse(up.status, [NoHeaders EXCEPT !.allowOrigin = "*"], "upstream-error")
  ELSE IF Includes(up.contentType, TypeLit.textHtml)
  THEN NewResponse(200, [NoHeaders EXCEPT !.contentType = TypeLit.textHtml,
                                          !.cacheControl = "no-cache"], "html")
  ELSE IF IsScriptResponse(up.contentType, path)
  THEN NewResponse(200, [NoHeaders EXCEPT !.contentType = up.contentType,
                                          !.cacheControl = ChunkCacheControl(path),
                                          !.allowOrigin = "*"], "script")
  ELSE IF IsStyleResponse(up.contentType)
  THEN NewResponse(200, [NoHeaders EXCEPT !.contentType = up.contentType,
                                          !.cacheControl = ChunkCacheControl(path),
                                          !.allowOrigin = "*"], "style")
  ELSE NewResponse(200, PassthroughHeaders(up, path), "passthrough")

----------------------------------------------------------------------------
(* POST: from the upstream outcome to the response.                        *)

\* response.headers.get('content-type') || 'application/json'
ContentTypeOrJson(contentType) ==
  IF contentType = <<>> THEN TypeLit.applicationJson ELSE contentType

\* POST after the upstream replied: the response as-is with the CORS header.
RespondPOST(up) ==
  WithBody(NewResponse(up.status, [NoHeaders EXCEPT !.contentType = ContentTypeOrJson(up.contentType),
                                                    !.allowOrigin = "*"], "post"),
           up.body)

----------------------------------------------------------------------------
(* The handlers, as steps between their awaits.                            *)

Finish(q, outcome) == [q EXCEPT !.pc = "done", !.resp = outcome]

\* The session as one handler reads it: the row of the select and the relay peer's
\* attachment.
RowOf(rows) == IF rows = <<>> THEN NoRow ELSE rows[1]

\* GET from the project lookup to the upstream call (or the early return).
LookupStepGET(q, rows, runners, wsFlag) ==
  LET proj      == RowOf(rows)
      connected == proj.runnerId \in runners
      decision  == SelectTransportGET(proj, q.host, wsFlag, connected)
      call      == ForwardGET(decision, proj, q.path)
      seen      == [q EXCEPT !.found = rows # <<>>, !.proj = proj,
                             !.runnerConnected = connected]
  IN  IF rows = <<>> THEN Finish(seen, ProxyFailed(NotFoundResponse))
      ELSE IF NotRunning(proj) THEN Finish(seen, ProxyFailed(NotRunningResponse))
      ELSE IF decision = "Pending"
      THEN Finish([seen EXCEPT !.decision = decision],
                  ProxyFailed(PendingResponse(proj, wsFlag)))
      ELSE IF ~call.ok
      THEN Finish([seen EXCEPT !.decision = decision],
                  ProxyFailed(ForwardCatchGET(call.error)))
      ELSE [seen EXCEPT !.decision = decision, !.calls = Append(q.calls, call),
                        !.pc = "awaiting"]

\* POST from the project lookup to the upstream call (or the early return).
LookupStepPOST(q, rows, runners, wsFlag) ==
  LET proj      == RowOf(rows)
      connected == proj.runnerId \in runners
      decision  == SelectTransportPOST(proj, q.host, wsFlag, connected)
      call      == PostPayload(ForwardPOST(decision, proj, q.path), q.body, q.contentType)
      seen      == [q EXCEPT !.found = rows # <<>>, !.proj = proj,
                             !.runnerConnected = connected]
  IN  IF rows = <<>> THEN Finish(seen, ProxyFailed(NotFoundResponse))
      ELSE IF NotRunning(proj) THEN Finish(seen, ProxyFailed(NotRunningResponse))
      ELSE IF decision = "Pending"
      THEN Finish([seen EXCEPT !.decision = decision],
                  ProxyFailed(PendingResponse(proj, wsFlag)))
      ELSE IF ~call.ok
      THEN Finish([seen EXCEPT !.decision = decision],
                  ProxyFailed(Thrown(call.error.cls, call.error.name, call.error.message)))
      ELSE [seen EXCEPT !.decision = decision, !.calls = Append(q.calls, call),
                        !.pc = "awaiting"]

\* GET after a rejection, with one retry of the call.
RejectedGET_Retries(q, err) ==
  IF Len(q.calls) < 2
  THEN [q EXCEPT !.calls = Append(q.calls, q.calls[Len(q.calls)]), !.elapsed = FALSE,
                 !.upstream = NoUpstream]
  ELSE Finish(q, ProxyFailed(ForwardCatchGET(err)))

\* GET after the upstream call rejected with err.
RejectedGET(q, err) == Finish(q, ProxyFailed(ForwardCatchGET(err)))

\* POST after the upstream call rejected with err.
RejectedPOST(q, err) == Finish(q, ProxyFailed(Thrown(err.cls, err.name, err.message)))

\* GET after the upstream replied.
RepliedGET(q, up) ==
  LET call    == q.calls[Len(q.calls)]
      wrapped == IF call.transport = "relay" THEN RelayResponse(up) ELSE NoResponse
  IN  IF wrapped.kind = "throw"
      THEN Finish(q, ProxyFailed(ForwardCatchGET(wrapped.error)))
      ELSE Finish(q, ProxyFailed(RespondGET(up, q.path)))

\* POST after the upstream replied.
RepliedPOST(q, up) ==
  LET call    == q.calls[Len(q.calls)]
      wrapped == IF call.transport = "relay" THEN RelayResponse(up) ELSE NoResponse
  IN  IF wrapped.kind = "throw"
      THEN Finish(q, ProxyFailed(wrapped))
      ELSE Finish(q, ProxyFailed(RespondPOST(up)))

----------------------------------------------------------------------------
(* Actions.                                                                *)

CanStart(r) == req[r].pc = "idle"

\* OPTIONS: answered at once.
OPTIONS(r) ==
  /\ CanStart(r)
  /\ req' = [req EXCEPT ![r] = Finish([Idle EXCEPT !.method = "OPTIONS"], OptionsResponse)]
  /\ UNCHANGED <<projects, connectedRunners, USE_WS_PROXY, run>>

\* GET and POST up to the project lookup: the path parameter read and normalized.
Receive(r) ==
  /\ CanStart(r)
  /\ \E m \in Methods, raw \in RawPaths, h \in Hosts :
       \E payload \in IF m = "POST" THEN InboundPayloads ELSE {[body |-> <<>>, contentType |-> <<>>]} :
         req' = [req EXCEPT ![r] = [Idle EXCEPT !.pc = "lookup", !.method = m, !.host = h,
                                                !.path = NormalizePath(PathParam(raw)),
                                                !.body = payload.body,
                                                !.contentType = payload.contentType]]
  /\ UNCHANGED <<projects, connectedRunners, USE_WS_PROXY, run>>

\* The lookup as an upsert: a missing row is written.
Lookup_WritesRow(r) ==
  /\ req[r].pc = "lookup"
  /\ req' = [req EXCEPT ![r] =
               IF req[r].method = "GET"
               THEN LookupStepGET(req[r], projects, connectedRunners, USE_WS_PROXY)
               ELSE LookupStepPOST(req[r], projects, connectedRunners, USE_WS_PROXY)]
  /\ projects' = IF projects = <<>> THEN <<NoRow>> ELSE projects
  /\ UNCHANGED <<connectedRunners, USE_WS_PROXY, run>>

\* The project lookup resolves; the handler decides and issues the upstream call.
Lookup(r) ==
  /\ req[r].pc = "lookup"
  /\ req' = [req EXCEPT ![r] =
               IF req[r].method = "GET"
               THEN LookupStepGET(req[r], projects, connectedRunners, USE_WS_PROXY)
               ELSE LookupStepPOST(req[r], projects, connectedRunners, USE_WS_PROXY)]
  /\ UNCHANGED <<projects, connectedRunners, USE_WS_PROXY, run>>

\* The upstream replies.
UpstreamReplies(r) ==
  /\ req[r].pc = "awaiting"
  /\ \E up \in UpstreamReplySet :
       LET q == [req[r] EXCEPT !.upstream = up]
       IN  req' = [req EXCEPT ![r] = IF q.method = "GET" THEN RepliedGET(q, up)
                                     ELSE RepliedPOST(q, up)]
  /\ UNCHANGED <<projects, connectedRunners, USE_WS_PROXY, run>>

\* The upstream call fails at transport level (connection refused, DNS, TLS, or
\* the relay peer gone).
UpstreamFails(r) ==
  /\ req[r].pc = "awaiting"
  /\ LET call == req[r].calls[Len(req[r].calls)]
     IN  \E err \in IF call.transport = "relay" THEN {RelayFailure}
                    ELSE {[cls |-> "TypeError", name |-> "TypeError", message |-> m] :
                            m \in FetchFailureMessages} :
           LET q == [req[r] EXCEPT !.upstream = [NoUpstream EXCEPT !.kind = "fail",
                                                                   !.error = err]]
           IN  req' = [req EXCEPT ![r] = IF q.method = "GET" THEN RejectedGET(q, err)
                                         ELSE RejectedPOST(q, err)]
  /\ UNCHANGED <<projects, connectedRunners, USE_WS_PROXY, run>>

\* 30 s pass without a reply.  A fetch that carries the timeout signal rejects with
\* the signal's reason; the relay rejects with its own timeout error; a fetch
\* without a signal stays pending.
DeadlineElapses(r) ==
  /\ req[r].pc = "awaiting"
  /\ ~req[r].elapsed
  /\ LET call == req[r].calls[Len(req[r].calls)]
         Rejected(err) ==
           LET q == [req[r] EXCEPT !.elapsed = TRUE,
                                   !.upstream = [NoUpstream EXCEPT !.kind = "timeout",
                                                                   !.error = err]]
           IN  IF q.method = "GET" THEN RejectedGET(q, err) ELSE RejectedPOST(q, err)
     IN  IF call.transport = "relay"
         THEN \E n \in RelayTimeoutErrorNames :
                req' = [req EXCEPT ![r] =
                          Rejected([cls |-> "Error", name |-> n, message |-> ErrorLit.timedOut])]
         ELSE IF call.timeoutMs > 0
         THEN req' = [req EXCEPT ![r] = Rejected(AbortSignalTimeoutReason)]
         ELSE req' = [req EXCEPT ![r] = [req[r] EXCEPT !.elapsed = TRUE]]
  /\ UNCHANGED <<projects, connectedRunners, USE_WS_PROXY, run>>

\* The caller's connection closes while the forward is in flight, and the inbound
\* request's signal aborts.  An upstream call that was given the signal rejects with
\* the signal's reason; a call that was not goes on.
CallerCloses(r) ==
  /\ req[r].pc = "awaiting"
  /\ ~req[r].callerClosed
  /\ LET call == req[r].calls[Len(req[r].calls)]
         err  == [cls |-> "DOMException", name |-> "AbortError", message |-> ErrorLit.aborted]
         q    == [req[r] EXCEPT !.callerClosed = TRUE]
         a    == [q EXCEPT !.upstream = [NoUpstream EXCEPT !.kind = "abort", !.error = err]]
     IN  req' = [req EXCEPT ![r] = IF ~call.callerSignal THEN q
                                   ELSE IF q.method = "GET" THEN RejectedGET(a, err)
                                   ELSE RejectedPOST(a, err)]
  /\ UNCHANGED <<projects, connectedRunners, USE_WS_PROXY, run>>

\* The response has been written out; the slot takes the next request.
Release(r) ==
  /\ req[r].pc = "done"
  /\ req' = [req EXCEPT ![r] = Idle]
  /\ UNCHANGED <<projects, connectedRunners, USE_WS_PROXY, run>>

(* The surrounding application, which owns the session.                    *)

CreateProject ==
  /\ projects = <<>>
  /\ projects' = <<NoRow>>
  /\ UNCHANGED <<connectedRunners, USE_WS_PROXY, req, run>>

DeleteProject ==
  /\ projects # <<>>
  /\ projects' = <<>>
  /\ UNCHANGED <<connectedRunners, USE_WS_PROXY, req, run>>

SetDevServer ==
  /\ projects # <<>>
  /\ \E s \in Statuses, p \in Ports :
       projects' = <<[projects[1] EXCEPT !.devServerStatus = s, !.devServerPort = p]>>
  /\ UNCHANGED <<connectedRunners, USE_WS_PROXY, req, run>>

SetTunnel ==
  /\ projects # <<>>
  /\ \E t \in TunnelUrls : projects' = <<[projects[1] EXCEPT !.tunnelUrl = t]>>
  /\ UNCHANGED <<connectedRunners, USE_WS_PROXY, req, run>>

SetRunner ==
  /\ projects # <<>>
  /\ \E id \in RunnerIds : projects' = <<[projects[1] EXCEPT !.runnerId = id]>>
  /\ UNCHANGED <<connectedRunners, USE_WS_PROXY, req, run>>

RunnerConnects ==
  /\ \E id \in RunnerIds \ {""} : connectedRunners' = connectedRunners \cup {id}
  /\ UNCHANGED <<projects, USE_WS_PROXY, req, run>>

RunnerDisconnects ==
  /\ \E id \in connectedRunners : connectedRunners' = connectedRunners \ {id}
  /\ UNCHANGED <<projects, USE_WS_PROXY, req, run>>

Next ==
  \/ \E r \in Reqs : OPTIONS(r)
  \/ \E r \in Reqs : Receive(r)
  \/ \E r \in Reqs : Lookup(r)
  \/ \E r \in Reqs : UpstreamReplies(r)
  \/ \E r \in Reqs : UpstreamFails(r)
  \/ \E r \in Reqs : DeadlineElapses(r)
  \/ \E r \in Reqs : Release(r)
  \/ CreateProject
  \/ DeleteProject
  \/ SetDevServer
  \/ SetTunnel
  \/ SetRunner
  \/ RunnerConnects
  \/ RunnerDisconnects

Spec == Init /\ [][Next]_vars

----------------------------------------------------------------------------
(* Two requests in flight at once, while the surrounding application        *)
(* changes the session: every interleaving of the handlers' steps.          *)

ConcReqs == {"q1", "q2"}

\* The upstream replies given to concurrent requests.
ConcReplies ==
  {up \in UpstreamReplySet :
     /\ up.status \in {200, 204}
     /\ up.contentType \in {<<>>, Sample.typeHtml}
     /\ up.cacheControl = ""}

InitConc ==
  /\ projects = <<>>
  /\ connectedRunners = {}
  /\ USE_WS_PROXY \in BOOLEAN
  /\ req = [r \in ConcReqs |-> Idle]
  /\ run = NoRun

NextConc ==
  \/ \E r \in ConcReqs : OPTIONS(r)
  \/ \E r \in ConcReqs :
       Receive(r) /\ req'[r].path = Sample.pathA /\ req'[r].host # Sample.hostLoop
  \/ \E r \in ConcReqs : Lookup(r)
  \/ \E r \in ConcReqs : UpstreamReplies(r) /\ req'[r].upstream \in ConcReplies
  \/ \E r \in ConcReqs : UpstreamFails(r)
  \/ \E r \in ConcReqs : DeadlineElapses(r)
  \/ \E r \in ConcReqs : Release(r)
  \/ CreateProject
  \/ DeleteProject
  \/ SetDevServer
  \/ SetRunner
  \/ RunnerConnects
  \/ RunnerDisconnects

SpecConc == InitConc /\ [][NextConc]_vars

----------------------------------------------------------------------------
(* One request whose caller may go away while the forward is in flight.     *)

NextCancel ==
  \/ \E r \in Reqs : OPTIONS(r)
  \/ \E r \in Reqs :
       Receive(r) /\ req'[r].path = Sample.pathA /\ req'[r].host # Sample.hostLoop
  \/ \E r \in Reqs : Lookup(r)
  \/ \E r \in Reqs : UpstreamReplies(r) /\ req'[r].upstream \in ConcReplies
  \/ \E r \in Reqs : UpstreamFails(r)
  \/ \E r \in Reqs : DeadlineElapses(r)
  \/ \E r \in Reqs : CallerCloses(r)
  \/ \E r \in Reqs : Release(r)
  \/ CreateProject
  \/ DeleteProject
  \/ SetDevServer
  \/ SetTunnel
  \/ SetRunner
  \/ RunnerConnects
  \/ RunnerDisconnects

SpecCancel == Init /\ [][NextCancel]_vars

----------------------------------------------------------------------------
(* The Path Normalizer on its own: a path, then its normalization by the    *)
(* handlers (GET and POST share the statement) and by the client bootstrap. *)

InitNormalize ==
  /\ projects = <<>>
  /\ connectedRunners = {}
  /\ USE_WS_PROXY = FALSE
  /\ req = [r \in Reqs |-> Idle]
  /\ run \in {[NoRun EXCEPT !.kind = "normalize", !.input = p] : p \in NormPaths}

ApplyNormalize ==
  /\ run.kind = "normalize" /\ ~run.applied
  /\ run' = [run EXCEPT !.applied = TRUE,
                        !.output = [server |-> NormalizePath(run.input),
                                    client |-> normalizeNextPath(run.input),
                                    again  |-> NormalizePath(NormalizePath(run.input))]]
  /\ UNCHANGED <<projects, connectedRunners, USE_WS_PROXY, req>>

SpecNormalize == InitNormalize /\ [][ApplyNormalize]_vars

----------------------------------------------------------------------------
(* The Content Rewriter on its own: the content type, the logical path and  *)
(* the body of a 200 reply, then the body of the response.                  *)

\* The replies given to the rewriter.
RewriteInputs ==
  {[NoRun EXCEPT !.kind = "html", !.contentType = Sample.typeHtml, !.input = d] : d \in HtmlDocs}
    \cup {[NoRun EXCEPT !.kind = "style", !.contentType = Sample.typeCss,
                        !.path = Sample.pathCssDirect, !.input = d] : d \in CssDocs}
    \cup {[NoRun EXCEPT !.kind = "script", !.contentType = Sample.typeJs,
                        !.path = p, !.input = d] : p \in ScriptPaths, d \in JsDocs}
    \cup {[NoRun EXCEPT !.kind = "selection", !.contentType = Sample.typeHtml,
                        !.input = d, !.script = t] : d \in HtmlFragments,
                                                     t \in SelectionScripts}
    \cup {[NoRun EXCEPT !.kind = "other", !.contentType = Sample.typeCss,
                        !.path = Sample.pathCss, !.input = d] : d \in CssFragments}
    \cup {[NoRun EXCEPT !.kind = "other", !.contentType = Sample.typeForm,
                        !.path = p, !.input = d] : p \in {Sample.pathA, Sample.pathTs},
                                                   d \in JsFragments}

InitRewrite ==
  /\ projects = <<>>
  /\ connectedRunners = {}
  /\ USE_WS_PROXY = FALSE
  /\ req = [r \in Reqs |-> Idle]
  /\ run \in RewriteInputs

ApplyRewrite ==
  /\ run.kind # "normalize" /\ ~run.applied
  /\ \E resp \in {RewriteResponse(ProjectId, run.contentType, run.path, run.input,
                                   run.script)} :
       run' = [run EXCEPT !.applied = TRUE, !.status = resp.status, !.output = resp.body]
  /\ UNCHANGED <<projects, connectedRunners, USE_WS_PROXY, req>>

SpecRewrite == InitRewrite /\ [][ApplyRewrite]_vars


----------------------------------------------------------------------------
(* Properties.                                                             *)

\* The request slot r holds a GET or POST that is past the project lookup.
Looked(r) == req[r].method \in Methods /\ req[r].pc \in {"awaiting", "done"}

\* The request slot r holds a GET or POST that has ended.
Ended(r) == req[r].method \in Methods /\ req[r].pc = "done"

\* The snapshot of r has the dev server running, with a port.
SnapshotRunning(r) ==
  req[r].found /\ req[r].proj.devServerStatus = "running" /\ req[r].proj.devServerPort # 0

\* The request origin of r is local.
OriginLocal(r) == Includes(req[r].host, TargetLit.localhost) \/ Includes(req[r].host, TargetLit.loopbackIp)

\* The snapshot of r has a relay peer attached.
RelayAttached(r) == USE_WS_PROXY /\ req[r].proj.runnerId # "" /\ req[r].runnerConnected

\* The snapshot of r has a tunnel URL.
TunnelPresent(r) == req[r].proj.tunnelUrl # <<>>

\* C1: a GET or POST whose project exists and whose snapshot has the dev server not
\* running (status other than 'running', or no port) is answered 503 and makes no
\* upstream call, whatever the path, the host, the tunnel URL and the relay.
C1_NotRunningFailsFast ==
  \A r \in Reqs :
    (Looked(r) /\ req[r].found /\ ~SnapshotRunning(r))
      => /\ req[r].pc = "done"
         /\ req[r].resp.kind = "response"
         /\ req[r].resp.status = 503
         /\ req[r].calls = <<>>

\* C1 witness: a remote request answered 503 for a running status without a port,
\* although a tunnel URL and an attached relay peer were there.
C1_Witness ==
  \E r \in Reqs :
    /\ Ended(r) /\ req[r].found
    /\ req[r].proj.devServerStatus = "running" /\ req[r].proj.devServerPort = 0
    /\ TunnelPresent(r) /\ RelayAttached(r) /\ ~OriginLocal(r)
    /\ req[r].resp.status = 503 /\ req[r].calls = <<>>

\* C2: for a running snapshot, GET and POST select the transport by the first
\* matching rule: local origin -> DirectLocal; else relay peer attached ->
\* RelayChannel; else tunnel URL present -> TunnelRemote; else Pending.  So
\* DirectLocal is chosen iff the origin is local, and the decision is a function of
\* (origin, relay attached, tunnel present).  The origin is local when the Host
\* header contains localhost or 127.0.0.1; a relay peer is attached when the relay
\* is enabled (USE_WS_PROXY), the row names a runner and that runner is connected.
C2_DecisionTable ==
  \A r \in Reqs :
    (Looked(r) /\ SnapshotRunning(r))
      => /\ (req[r].decision = "DirectLocal") <=> OriginLocal(r)
         /\ (req[r].decision = "RelayChannel") <=> (~OriginLocal(r) /\ RelayAttached(r))
         /\ (req[r].decision = "TunnelRemote")
              <=> (~OriginLocal(r) /\ ~RelayAttached(r) /\ TunnelPresent(r))
         /\ (req[r].decision = "Pending")
              <=> (~OriginLocal(r) /\ ~RelayAttached(r) /\ ~TunnelPresent(r))

\* C2 witness: a remote GET with both a tunnel URL and an attached relay peer went
\* over the relay.
C2_Witness ==
  \E r \in Reqs :
    /\ Looked(r) /\ req[r].method = "GET" /\ SnapshotRunning(r)
    /\ ~OriginLocal(r) /\ RelayAttached(r) /\ TunnelPresent(r)
    /\ req[r].decision = "RelayChannel"
    /\ Len(req[r].calls) = 1 /\ req[r].calls[1].transport = "relay"

\* C3: a GET or POST from a remote host to a running session with no tunnel URL and
\* no attached relay peer is answered 202 with X-Tunnel-Status: pending, and makes
\* no upstream call.
C3_PendingIs202 ==
  \A r \in Reqs :
    (Looked(r) /\ SnapshotRunning(r) /\ ~OriginLocal(r) /\ ~TunnelPresent(r)
       /\ ~RelayAttached(r))
      => /\ req[r].pc = "done"
         /\ req[r].resp.kind = "response"
         /\ req[r].resp.status = 202
         /\ req[r].resp.headers.tunnelStatus = "pending"
         /\ req[r].calls = <<>>

\* C3 witness: a POST answered 202 while the relay is enabled and the runner is
\* known but not connected.
C3_Witness ==
  \E r \in Reqs :
    /\ Ended(r) /\ req[r].method = "POST" /\ SnapshotRunning(r)
    /\ ~OriginLocal(r) /\ ~TunnelPresent(r)
    /\ USE_WS_PROXY /\ req[r].proj.runnerId # "" /\ ~req[r].runnerConnected
    /\ req[r].resp.status = 202 /\ req[r].resp.headers.proxyMode = "websocket"

\* C4: a GET forwarded over DirectLocal or TunnelRemote whose upstream call exceeds
\* the 30 s deadline is answered 504.
C4_TimeoutIs504 ==
  \A r \in Reqs :
    (Ended(r) /\ req[r].method = "GET" /\ req[r].upstream.kind = "timeout"
       /\ req[r].decision \in {"DirectLocal", "TunnelRemote"})
      => req[r].resp.status = 504

\* C5: a forward whose upstream call fails at transport level is answered 502 or
\* 503, on any transport, for GET and POST.
C5_TransportFailureIs502or503 ==
  \A r \in Reqs :
    (Ended(r) /\ req[r].upstream.kind = "fail") => req[r].resp.status \in {502, 503}

\* C6: the forwarder's deadline bounds every forward: once 30 s have passed without
\* an upstream reply the request has ended, with a 504 response.
C6_DeadlineBoundsEveryForward ==
  \A r \in Reqs :
    (req[r].method \in Methods /\ req[r].elapsed)
      => (req[r].pc = "done" /\ req[r].resp.status = 504)

\* C7: a GET or POST whose upstream replied with a non-2xx status s is answered
\* with status s.
C7_UpstreamStatusPassedThrough ==
  \A r \in Reqs :
    (Ended(r) /\ req[r].upstream.kind = "reply" /\ ~IsOk(req[r].upstream.status))
      => (req[r].resp.kind = "response" /\ req[r].resp.status = req[r].upstream.status)

\* The statuses of the status table, for a request that has ended.
InStatusTable(r) ==
  \/ IsOk(req[r].resp.status)
  \/ req[r].resp.status \in {503, 504, 500}
  \/ (req[r].upstream.kind = "reply" /\ req[r].resp.status = req[r].upstream.status)

C9_CorsOnEveryResponse ==
  \A r \in Reqs :
    req[r].pc = "done"
      => /\ req[r].resp.headers.allowOrigin = "*"
         /\ req[r].resp.headers.allowMethods # ""
         /\ req[r].resp.headers.allowHeaders # ""

\* C10: the upstream call of a DirectLocal forward targets the loopback host at the
\* snapshot's devServerPort, and that of a TunnelRemote forward the host (and port)
\* of the snapshot's tunnelUrl, for every value of the path parameter.
C10_ForwardTargetsSessionHost ==
  \A r \in Reqs :
    \A i \in 1..Len(req[r].calls) :
      /\ req[r].decision = "DirectLocal"
           => /\ req[r].calls[i].host = TargetLit.localhost
              /\ req[r].calls[i].port = req[r].proj.devServerPort
      /\ req[r].decision = "TunnelRemote"
           => /\ req[r].calls[i].host = ParseUrl(req[r].proj.tunnelUrl).host
              /\ req[r].calls[i].port = ParseUrl(req[r].proj.tunnelUrl).port

\* The request slot r holds a GET answered on one of the four rewriter branches.
SuccessfulGET(r) ==
  /\ Ended(r) /\ req[r].method = "GET" /\ req[r].resp.kind = "response"
  /\ req[r].resp.branch \in {"html", "script", "style", "passthrough"}

\* C11: every successful GET, on the HTML, script, style and passthrough branch
\* alike, is long-lived cacheable when its logical path matches the chunk-naming
\* convention, and carries a no-cache Cache-Control otherwise.
C11_CachePolicyOnEveryBranch ==
  \A r \in Reqs :
    SuccessfulGET(r)
      => IF IsViteChunk(req[r].path)
         THEN req[r].resp.headers.cacheControl = "public, max-age=600, immutable"
         ELSE req[r].resp.headers.cacheControl
                \in {"no-cache", "no-cache, no-store, must-revalidate"}

\* C12: a response delivered without body rewriting (the passthrough branch of GET,
\* and POST) for a logical path under /_serverFn/ or /api/ carries the strict
\* Cache-Control 'no-cache, no-store, must-revalidate', whatever the upstream sent.
C12_NoStoreForServerFnAndApi ==
  \A r \in Reqs :
    (/\ Ended(r) /\ req[r].resp.kind = "response"
     /\ req[r].resp.branch \in {"passthrough", "post"}
     /\ (StartsWith(req[r].path, TypeLit.serverFn) \/ StartsWith(req[r].path, TypeLit.api)))
      => req[r].resp.headers.cacheControl = "no-cache, no-store, must-revalidate"

\* C13: a POST is forwarded, on every transport, with the inbound body bytes and the
\* inbound Content-Type (when the request has one), and the upstream's reply is
\* returned with its status and its body unchanged.
C13_PostForwardedAndReturnedUnchanged ==
  \A r \in Reqs :
    (req[r].method = "POST" /\ req[r].calls # <<>>)
      => /\ req[r].calls[1].body = req[r].body
         /\ req[r].contentType # <<>> => req[r].calls[1].contentType = req[r].contentType
         /\ (req[r].pc = "done" /\ req[r].upstream.kind = "reply")
              => /\ req[r].resp.kind = "response"
                 /\ req[r].resp.status = req[r].upstream.status
                 /\ req[r].resp.body = req[r].upstream.body

\* p is [/]static/<dir>/... with <dir> one of chunks, css, media, development, webpack.
HasMalformedChunkShape(p) ==
  \E d \in {PathLit.chunks, PathLit.css, PathLit.media, PathLit.development, PathLit.webpack} :
    \E k \in 0..1 :
      /\ Len(p) >= k + Len(PathLit.static) + Len(d) + 1
      /\ k = 1 => p[1] = "/"
      /\ SubSeq(p, k + 1, k + Len(PathLit.static) + Len(d) + 1) = PathLit.static \o d \o <<"/">>

\* C14: for every path p, with or without a leading slash, the normalization has a
\* result, normalizing the result again changes nothing, a path of the shape
\* [/]static/(chunks|css|media|development|webpack)/... becomes /_next/ followed by
\* p without its leading slash, every other path is returned as it is, and the
\* client-side normalizeNextPath returns what the server-side normalization returns.
C14_NormalizeIdempotentAndShared ==
  (run.kind = "normalize" /\ run.applied)
    => /\ run.output.again = run.output.server
       /\ run.output.client = run.output.server
       /\ IF HasMalformedChunkShape(run.input)
          THEN run.output.server
                 = <<"/", "_", "n", "e", "x", "t", "/">>
                     \o (IF run.input[1] = "/" THEN Tail(run.input) ELSE run.input)
          ELSE run.output.server = run.input

\* C14 witness: a path /static/<dir>/... with a leading slash was re-anchored.
C14_Witness ==
  /\ run.kind = "normalize" /\ run.applied
  /\ HasMalformedChunkShape(run.input) /\ run.input[1] = "/"
  /\ run.output.server # run.input

\* C15: the body of every HTML response contains the client bootstrap script, and no
\* <script tag of the upstream document stands before it (the selection script the
\* rewriter adds itself is not one of them).
C15_BootstrapBeforeEveryScript ==
  (run.kind = "html" /\ run.applied)
    => LET b == IndexFrom(run.output, EarlyScripts(ProjectId), 1, FALSE)
           added == HtmlLit.scriptTag \o HtmlLit.selection \o HtmlLit.scriptClose
       IN  /\ b # 0
           /\ \A j \in 1..(b - 1) :
                LitAt(run.output, j, HtmlLit.scriptOpen, TRUE) => LitAt(run.output, j, added, FALSE)

\* The positions in s where an attribute named src or href starts: after whitespace,
\* the name, then =.
SrcHrefStarts(s) ==
  {i \in 2..Len(s) : /\ IsSpace(s[i - 1])
                     /\ \/ LitAt(s, i, <<"s", "r", "c", "=">>, TRUE)
                        \/ LitAt(s, i, <<"h", "r", "e", "f", "=">>, TRUE)}

\* The value of the attribute that starts at i: up to the closing quote when it is
\* quoted, up to whitespace or > when it is not.
AttrValueAt(s, i) ==
  LET v == FindChar(s, i, {"="}) + 1
  IN  IF v <= Len(s) /\ s[v] \in Quotes
      THEN SubSeq(s, v + 1, FindChar(s, v + 1, {s[v]}) - 1)
      ELSE SubSeq(s, v, FindChar(s, v, {" ", "\t", "\n", "\r", ">"}) - 1)

\* The values of the src and href attributes of s, in document order.
SrcHrefValues(s) ==
  LET starts == SrcHrefStarts(s)
  IN  [k \in 1..Cardinality(starts) |->
         AttrValueAt(s, CHOOSE i \in starts : Cardinality({j \in starts : j < i}) = k - 1)]

\* v is an absolute path (one leading slash) that is not proxy-addressed.
BareAbsolutePath(v) ==
  /\ v # <<>> /\ v[1] = "/" /\ ~(Len(v) >= 2 /\ v[2] = "/")
  /\ ~StartsWith(v, <<"/", "a", "p", "i", "/", "p", "r", "o", "j", "e", "c", "t", "s", "/", "p", "1", "/", "p", "r", "o", "x", "y", "?", "p", "a", "t", "h", "=">>)

\* C16: the src and href attributes of the rewritten document are those of the
\* upstream document, in the same order, with every absolute-path value that is
\* not proxy-addressed replaced by proxyPrefix + its encoded path (for a style
\* sheet: of the path with ?direct) and every other value (proxy-addressed, http:,
\* https:, data:) unchanged; so N bare absolute references give N proxy-addressed
\* ones and none remains.
C16_EveryAbsoluteReferenceProxied ==
  (run.kind = "html" /\ run.applied)
    => LET before == SrcHrefValues(run.input)
           after  == SrcHrefValues(run.output)
       IN  /\ Len(after) = Len(before)
           /\ \A k \in 1..Len(before) :
                IF BareAbsolutePath(before[k])
                THEN after[k] \in
                       { <<"/", "a", "p", "i", "/", "p", "r", "o", "j", "e", "c", "t", "s", "/", "p", "1", "/", "p", "r", "o", "x", "y", "?", "p", "a", "t", "h", "=">> \o encodeURIComponent(before[k]),
                         <<"/", "a", "p", "i", "/", "p", "r", "o", "j", "e", "c", "t", "s", "/", "p", "1", "/", "p", "r", "o", "x", "y", "?", "p", "a", "t", "h", "=">>
                           \o encodeURIComponent(before[k] \o <<"?", "d", "i", "r", "e", "c", "t">>) }
                ELSE after[k] = before[k]

\* A url(...) reference of a style sheet at position i: its length (0: none), its
\* quote and its target (the text between the parentheses, trimmed and unquoted).
UrlReferenceAt(s, i) ==
  LET a      == i + Len(AssetLit.url)
      close  == FindChar(s, a, {")"})
      inner  == Trim(SubSeq(s, a, close - 1))
      quoted == Len(inner) >= 2 /\ inner[1] \in Quotes /\ inner[Len(inner)] = inner[1]
  IN  IF ~LitAt(s, i, AssetLit.url, TRUE) \/ close > Len(s)
      THEN [len |-> 0, quote |-> <<>>, target |-> <<>>]
      ELSE [len |-> close - i + 1,
            quote |-> IF quoted THEN <<inner[1]>> ELSE <<>>,
            target |-> IF quoted THEN SubSeq(inner, 2, Len(inner) - 1) ELSE inner]

\* The target is an http:, https: or data: URL, or a fragment #id.
ExemptTarget(target) ==
  \E l \in {<<"h", "t", "t", "p", ":">>, <<"h", "t", "t", "p", "s", ":">>, <<"d", "a", "t", "a", ":">>, <<"#">>} : LitAt(target, 1, l, TRUE)

\* What the claim asks of the reference at position i: left as it is, or proxied.
ExpectedUrlAt(s, i) ==
  LET ref == UrlReferenceAt(s, i)
      absolutePath == IF StartsWith(ref.target, PathLit.slash) THEN ref.target
                      ELSE PathLit.slash \o ref.target
  IN  IF ref.len = 0 THEN NoMatch
      ELSE IF ExemptTarget(ref.target) THEN [len |-> ref.len, out |-> SubSeq(s, i, i + ref.len - 1)]
      ELSE [len |-> ref.len,
            out |-> AssetLit.url \o ref.quote \o ProxyPrefix(ProjectId)
                      \o encodeURIComponent(absolutePath) \o ref.quote \o <<")">>]

\* C17: in every style sheet the Style rewriter handled, every url(...) reference to
\* an http:, https: or data: URL or to a fragment #id is unchanged, every other
\* url(...) reference is replaced by its proxied absolute form, and the text outside
\* the references is unchanged.
C17_StyleReferencesRewritten ==
  (run.kind = "style" /\ run.applied) =>
    run.output = ReplaceFrom([k \in 1..Len(run.input) |-> ExpectedUrlAt(run.input, k)],
                             run.input, 1)

\* An export default "<absolute .css path>" literal at position i, and what the claim
\* asks in its place.
ExpectedExportAt(s, i) ==
  LET open   == <<"e", "x", "p", "o", "r", "t", " ", "d", "e", "f", "a", "u", "l", "t", " ", "\"">>
      e      == FindChar(s, i + Len(open), {"\""})
      target == SubSeq(s, i + Len(open), e - 1)
  IN  IF ~LitAt(s, i, open, FALSE) \/ e > Len(s) THEN NoMatch
      ELSE IF ~(StartsWith(target, <<"/">>) /\ EndsWith(target, <<".", "c", "s", "s">>) /\ Len(target) > 5) THEN NoMatch
      ELSE [len |-> e - i + 1,
            out |-> open \o ProxyPrefix(ProjectId) \o encodeURIComponent(target \o <<"?", "d", "i", "r", "e", "c", "t">>)
                      \o <<"\"">>]

\* C18: in a script requested with ?url in its path, every export default "<absolute
\* .css path>" literal becomes proxyPrefix + encodeURIComponent(path + '?direct') (so
\* "/src/app.css" becomes "<proxyPrefix>%2Fsrc%2Fapp.css%3Fdirect") and nothing else of
\* the module changes: neither the CSS-import pass nor the generic import pass ran.
C18_UrlExportRewrittenAlone ==
  (run.kind = "script" /\ run.applied /\ Includes(run.path, <<"?", "u", "r", "l">>)) =>
    /\ run.output = ReplaceFrom([k \in 1..Len(run.input) |-> ExpectedExportAt(run.input, k)],
                                run.input, 1)
    /\ run.input = <<"e", "x", "p", "o", "r", "t", " ", "d", "e", "f", "a", "u", "l", "t", " ", "\"", "/", "s", "r", "c", "/", "a", "p", "p", ".", "c", "s", "s", "\"">> =>
         run.output = <<"e", "x", "p", "o", "r", "t", " ", "d", "e", "f", "a", "u", "l", "t", " ", "\"", "/", "a", "p", "i", "/", "p", "r", "o", "j", "e", "c", "t", "s", "/", "p", "1", "/", "p", "r", "o", "x", "y", "?", "p", "a", "t", "h", "=", "%", "2", "F", "s", "r", "c", "%", "2", "F", "a", "p", "p", ".", "c", "s", "s", "%", "3", "F", "d", "i", "r", "e", "c", "t", "\"">>

\* A ?url module with an export literal and an absolute import went through the rewriter:
\* the literal is proxied, the import is as it was.
C18_Witness ==
  /\ run.kind = "script" /\ run.applied /\ Includes(run.path, <<"?", "u", "r", "l">>)
  /\ run.input = <<"e", "x", "p", "o", "r", "t", " ", "d", "e", "f", "a", "u", "l", "t", " ", "\"", "/", "s", "r", "c", "/", "a", "p", "p", ".", "c", "s", "s", "\"", "i", "m", "p", "o", "r", "t", " ", "a", " ", "f", "r", "o", "m", " ", "\"", "/", "s", "r", "c", "/", "m", ".", "j", "s", "\"", ";">>
  /\ run.output = <<"e", "x", "p", "o", "r", "t", " ", "d", "e", "f", "a", "u", "l", "t", " ", "\"", "/", "a", "p", "i", "/", "p", "r", "o", "j", "e", "c", "t", "s", "/", "p", "1", "/", "p", "r", "o", "x", "y", "?", "p", "a", "t", "h", "=", "%", "2", "F", "s", "r", "c", "%", "2", "F", "a", "p", "p", ".", "c", "s", "s", "%", "3", "F", "d", "i", "r", "e", "c", "t", "\"", "i", "m", "p", "o", "r", "t", " ", "a", " ", "f", "r", "o", "m", " ", "\"", "/", "s", "r", "c", "/", "m", ".", "j", "s", "\"", ";">>

\* The positions of the pathname-only extraction pattern in a script.
PathnameUses(js) == {k \in 1..Len(js) : LitAt(js, k, AssetLit.pathname, FALSE)}

\* C19: in every script the Script rewriter handled that contains new URL(href).pathname,
\* every occurrence of the pattern has become new URL(href).pathname+new URL(href).search,
\* the form that keeps the query string of the reference.
C19_PathnamePatchedEverywhere ==
  (run.kind = "script" /\ run.applied /\ PathnameUses(run.input) # {}) =>
    /\ Cardinality(PathnameUses(run.output)) = Cardinality(PathnameUses(run.input))
    /\ \A k \in PathnameUses(run.output) :
         LitAt(run.output, k + Len(AssetLit.pathname), AssetLit.plusSearch, FALSE)

\* Two request slots hold the same request, session snapshot and upstream outcome.
SameRequestAndReplies(r1, r2) ==
  \A f \in {"method", "path", "host", "body", "contentType", "found", "proj",
            "runnerConnected", "upstream"} : req[r1][f] = req[r2][f]

\* C20: no step of a GET, POST or OPTIONS handler changes the session rows, the relay's
\* runner registry or the feature flag, whatever the other request is doing; and two
\* requests that ended with the same request, snapshot and upstream outcome ended
\* with the same response.
C20_HandlersWriteNothingShared ==
  /\ [][req' # req => UNCHANGED <<projects, connectedRunners, USE_WS_PROXY>>]_vars
  /\ [](\A r1 \in DOMAIN req, r2 \in DOMAIN req :
          (req[r1].pc = "done" /\ req[r2].pc = "done" /\ SameRequestAndReplies(r1, r2))
            => req[r1].resp = req[r2].resp)

\* Two GETs of the same path were in flight together while the dev server stopped: one
\* took its snapshot before and ended 200, the other after and ended 503.
C20_Witness ==
  /\ DOMAIN req = ConcReqs
  /\ \A r \in ConcReqs : req[r].pc = "done" /\ req[r].method = "GET"
  /\ req["q1"].host = req["q2"].host
  /\ req["q1"].proj.devServerStatus = "running" /\ req["q1"].resp.status = 200
  /\ req["q2"].proj.devServerStatus = "stopped" /\ req["q2"].resp.status = 503
  /\ projects # <<>> /\ projects[1].devServerStatus = "stopped"

\* C21: each rewriter is idempotent: applied with the same id and path to its own
\* output, the HTML, the Script and the Style rewriter each give that output back.
C21_RewritersIdempotent ==
  (run.kind \in {"html", "script", "style"} /\ run.applied) =>
    RewriteBody(ProjectId, run.contentType, run.path, run.output, run.script) = run.output

\* C22: once the caller's connection has closed while a forward was in flight, the
\* upstream call (fetch or relay request) is aborted: the request is not left
\* awaiting it, and what the handler got from the call is the abort.
C22_CancellationPropagates ==
  \A r \in Reqs :
    req[r].callerClosed => (req[r].pc = "done" /\ req[r].upstream.kind = "abort")

\* C23: a request causes at most one upstream call, and a request whose call timed
\* out, failed or was answered with a non-2xx status has ended.
C23_AtMostOneUpstreamCall ==
  \A r \in Reqs :
    /\ Len(req[r].calls) <= 1
    /\ (req[r].upstream.kind \in {"timeout", "fail"}
          \/ (req[r].upstream.kind = "reply" /\ ~IsOk(req[r].upstream.status)))
         => req[r].pc = "done"

\* A GET whose only call failed at transport level has ended.
C23_Witness ==
  \E r \in Reqs :
    /\ req[r].method = "GET" /\ req[r].pc = "done"
    /\ req[r].upstream.kind = "fail"
    /\ Len(req[r].calls) = 1

\* C24: when a rewrite pass cannot be applied to the body of a 200 reply (a replacer
\* throws), GET answers with the passthrough: status 200 and the upstream's body,
\* unmodified.
C24_ThrowFallsBackToPassthrough ==
  (/\ run.kind \in {"html", "script", "style"}
   /\ run.applied
   /\ Threw(RewriteBody(ProjectId, run.contentType, run.path, run.input, run.script)))
    => (run.status = 200 /\ run.output = run.input)

\* The body the Content-Type alone selects for a 200 reply: the HTML rewriter's for
\* text/html, the Script rewriter's for JavaScript, the Style rewriter's for text/css,
\* the upstream's bytes for every other type.
BodyByContentType(contentType, path, body) ==
  IF Includes(contentType, TypeLit.textHtml) THEN RewriteHtml(ProjectId, body, HtmlLit.selection)
  ELSE IF Includes(contentType, TypeLit.javascript) THEN RewriteScript(ProjectId, path, body)
  ELSE IF Includes(contentType, TypeLit.textCss) THEN RewriteStyle(ProjectId, body)
  ELSE body

\* C25: the rewriter applied to a 200 reply is determined by the upstream Content-Type:
\* text/html gets the HTML rewriter, JavaScript the Script rewriter, text/css the Style
\* rewriter, and every other content type is passed through, whatever the path.
C25_BranchByContentType ==
  (run.kind \in {"html", "script", "style", "other"} /\ run.applied /\ run.status = 200)
    => run.output = BodyByContentType(run.contentType, run.path, run.input)

\* v is a style sheet's path: what precedes its query string ends with .css.
StylesheetPath(v) ==
  LET q == FirstIndexIn(v, {"?", "#"})
  IN  LitAt(v, q - Len(TypeLit.dotCss), TypeLit.dotCss, TRUE)

\* C26: every absolute-path style sheet reference the HTML rewriter rewrites carries
\* the raw-content marker: ?direct is part of the logical path encoded into the
\* proxied URL, also when the href already has a query string.
C26_StylesheetsCarryDirect ==
  (run.kind = "html" /\ run.applied)
    => LET before == SrcHrefValues(run.input)
           after  == SrcHrefValues(run.output)
       IN  \A k \in 1..Len(before) :
             (BareAbsolutePath(before[k]) /\ StylesheetPath(before[k]))
               => /\ k <= Len(after)
                  /\ StartsWith(after[k], ProxyPrefix(ProjectId))
                  /\ Includes(after[k], encodeURIComponent(TypeLit.direct))

\* The literal absolute paths the script s assigns to __webpack_require__.p.
PublicPathLiterals(s) ==
  {SubSeq(s, c + 1, FindChar(s, c + 1, Quotes) - 1) :
     c \in {c \in 1..(Len(s) - 2) :
              /\ s[c] \in Quotes /\ s[c + 1] = "/"
              /\ FindChar(s, c + 1, Quotes) <= Len(s)
              /\ \E i \in 1..c : \E b \in i..c :
                   /\ LitAt(s, i, AssetLit.publicPath, FALSE)
                   /\ b = SkipSpace(s, i + Len(AssetLit.publicPath))
                   /\ s[b] = "="
                   /\ c = SkipSpace(s, b + 1)}}

\* C27: every literal absolute path a script assigns to __webpack_require__.p is
\* rewritten to proxyPrefix + encodeURIComponent(literal), whatever the literal and
\* whatever the path of the script.
C27_PublicPathRewritten ==
  (run.kind = "script" /\ run.applied /\ run.status = 200)
    => \A literal \in PublicPathLiterals(run.input) :
         /\ Includes(run.output, ProxyPrefix(ProjectId) \o encodeURIComponent(literal))
         /\ literal \notin PublicPathLiterals(run.output)

\* The module specifiers of the script s, in order: the quoted texts that follow
\* from, import(, import, require( and export * from.
SpecifiersOf(s) ==
  LET starts == {p \in {ImportPrefixAt(s, i, TRUE) : i \in 1..Len(s)} :
                   p > 0 /\ FindChar(s, p, Quotes) <= Len(s)}
  IN  [k \in 1..Cardinality(starts) |->
         LET p == CHOOSE p \in starts : Cardinality({j \in starts : j < p}) = k - 1
         IN  SubSeq(s, p, FindChar(s, p, Quotes) - 1)]

\* w is the proxied form of the specifier v: proxyPrefix + encodeURIComponent(v), or,
\* from the CSS-import pass, proxyPrefix + encodeURIComponent(cssPath) + ?url.
ProxiedOnce(v, w) ==
  \/ w = ProxyPrefix(ProjectId) \o encodeURIComponent(v)
  \/ /\ EndsWith(v, TypeLit.dotCss \o AssetLit.queryUrl)
     /\ w = ProxyPrefix(ProjectId)
              \o encodeURIComponent(SubSeq(v, 1, Len(v) - Len(AssetLit.queryUrl)))
              \o AssetLit.queryUrl

\* C28: in a script that is not an asset-URL-export module, every absolute-path
\* specifier of from, import(), import, require() and export * from that is not yet
\* proxy-addressed is rewritten to proxied form, once, and a proxy-addressed one is
\* left as it is (also one the CSS-import pass has just produced).
C28_SpecifiersProxiedOnce ==
  (/\ run.kind = "script" /\ run.applied /\ run.status = 200
   /\ ~Includes(run.path, AssetLit.queryUrl))
    => LET before == SpecifiersOf(run.input)
           after  == SpecifiersOf(run.output)
       IN  /\ Len(after) = Len(before)
           /\ \A k \in 1..Len(before) :
                IF BareAbsolutePath(before[k]) THEN ProxiedOnce(before[k], after[k])
                ELSE IF StartsWith(before[k], PathLit.slash) THEN after[k] = before[k]
                ELSE TRUE

\* C29: for every HTML document and every selection script body, the rewritten
\* document holds <script>, the body character for character, </script> right before
\* </body>, or as its last characters when the document has no </body>.
C29_SelectionScriptVerbatim ==
  (run.kind \in {"html", "selection"} /\ run.applied)
    => LET tag == HtmlLit.scriptTag \o run.script \o HtmlLit.scriptClose
       IN  IF IndexFrom(run.input, HtmlLit.body, 1, TRUE) = 0
           THEN EndsWith(run.output, tag)
           ELSE Includes(run.output, tag \o HtmlLit.body)

\* The proxy URLs of a rewritten body: in a document the src and href values and the
\* module specifiers that start with the proxy prefix, in a script or a style sheet
\* every text that starts with the proxy prefix, up to the quote, parenthesis or
\* blank that ends it.
EmittedUrls(kind, s) ==
  IF kind = "html"
  THEN LET values == SrcHrefValues(s)
           specifiers == SpecifiersOf(s)
       IN  {v \in {values[k] : k \in 1..Len(values)}
                    \cup {specifiers[k] : k \in 1..Len(specifiers)} :
              StartsWith(v, ProxyPrefix(ProjectId))}
  ELSE {SubSeq(s, i, FindChar(s, i, Quotes \cup {")", " ", ";"}) - 1) :
          i \in {i \in 1..Len(s) : LitAt(s, i, ProxyPrefix(ProjectId), FALSE)}}

\* The proxy URL u is the one a pass emits for the logical path p.
EmittedFor(p, u) ==
  \/ u = ProxyPrefix(ProjectId) \o encodeURIComponent(p)
  \/ /\ EndsWith(p, TypeLit.dotCss \o AssetLit.queryUrl)
     /\ u = ProxyPrefix(ProjectId)
              \o encodeURIComponent(SubSeq(p, 1, Len(p) - Len(AssetLit.queryUrl)))
              \o AssetLit.queryUrl

\* C30: every proxy URL a rewriter pass emits carries a path that begins with a
\* slash; GET recovers from its path parameter exactly the logical path the URL was
\* emitted for, and the call for the normalized path goes to the dev server (here
\* the local one, on port 3000).
C30_ProxyUrlRoundTrip ==
  (run.kind \in {"html", "script", "style"} /\ run.applied /\ run.status = 200)
    => \A u \in EmittedUrls(run.kind, run.output) :
         LET p == SearchParamPath(u)
             call == FetchCall(TargetUrl("DirectLocal", [devServerPort |-> 3000],
                                         NormalizePath(PathParam(p))),
                               FetchTimeoutMs)
         IN  /\ StartsWith(p, PathLit.slash)
             /\ EmittedFor(p, u)
             /\ call.ok /\ call.host = TargetLit.localhost /\ call.port = 3000

============================================================================
